---- MODULE Spec2Model ----
(***************************************************************************)
(* Sneeze tracker: the persistence and query layer.                        *)
(*   app/models.py         the users and sneezes tables                    *)
(*   app/auth_service.py   AuthService   (identity service)                *)
(*   app/sneeze_service.py SneezeService (event service)                   *)
(* Every service method opens one database session; a method that writes   *)
(* reads first and commits afterwards.  The specifications share the       *)
(* state:                                                                  *)
(*   SpecAuth  the identity service, one call at a time                    *)
(*   SpecReg   register_user calls of several clients, read and commit     *)
(*             interleaved                                                 *)
(*   Spec      the event service, one call at a time: all severities and   *)
(*             notes                                                       *)
(*   SpecTime  the event service, one call at a time: the clock moves and  *)
(*             timestamps are rewritten                                    *)
(*   SpecLife  a sneeze from create_sneeze to delete_sneeze                *)
(*   SpecFail  calls that fail                                             *)
(*   SpecForm  the forms of app/models.py in front of the services         *)
(*   SpecOrder sneezes created one after the other and listed              *)
(*   SpecStats get_sneeze_stats over severities and timestamps             *)
(*   SpecRace  update_sneeze and delete_sneeze of concurrent callers       *)
(*   SpecUI    the pages of app/auth_ui.py, app/dashboard_ui.py and        *)
(*             app/sneezes_ui.py in the tabs of the browsers               *)
(***************************************************************************)
EXTENDS Integers, Sequences, FiniteSets, TLC

VARIABLES
    users,          \* rows of table "users"
    sneezes,        \* rows of table "sneezes"
    next_user_id,   \* next value of users.id
    next_sneeze_id, \* next value of sneezes.id
    now,            \* the clock datetime.utcnow() reads
    result,         \* the last call of a service method: name, arguments, outcome
    reg,            \* per client: the register_user call in progress
    registered,     \* what the callers of register_user hold: the form they sent
                    \* and the id of the user they got back
    before,         \* the two tables as they were when the last call started
    session,        \* app.storage.user of each browser that stored something
    txn,            \* per writer that made one: the update_sneeze or
                    \* delete_sneeze call in progress or finished
    page,           \* per browser and tab that shows one: the page and the
                    \* user_id its handlers were built with
    ui              \* the last page function or handler that ran

vars == <<users, sneezes, next_user_id, next_sneeze_id, now, result, reg, registered,
          before, session, txn, page, ui>>

-----------------------------------------------------------------------------
(* Bounds and input sets *)

\* clients that call register_user concurrently
NumClients == 2

Clients == 1..NumClients

\* the browsers using the pages; each has its own app.storage.user
Browsers == {"browser1", "browser2"}

\* the callers of update_sneeze and delete_sneeze that run at the same time
Writers == {"writer1", "writer2"}

Usernames == {"user1", "user2"}

Emails == {"user1@example.com", "user2@example.com"}

Passwords == {"password123", "password456"}

\* Python's None, for Optional[...] values
None == "None"

\* a dictionary with no key, as app.storage.user is before anything is stored
Empty == [k \in {} |-> None]

\* d[k] = v
Put(d, k, v) == [x \in DOMAIN d \cup {k} |-> IF x = k THEN v ELSE d[x]]

\* del d[k]
Drop(d, k) == [x \in DOMAIN d \ {k} |-> d[x]]

\* limit=None of get_user_sneezes
NoLimit == -1

\* sneezes created in one run of the event service
MaxSneezes == 3

\* the largest limit passed to get_user_sneezes
MaxLimit == 3

\* steps of the clock in one run
MaxTicks == 1

\* the calendar of the model: days of a month, clock values of a day
DaysPerMonth == 2

TicksPerDay == 2

\* the user ids the event service is called with
UserIdInputs == 1..2

NotesInputs == {"", "Original note"}

\* the users of the event service's tests
FixtureUsers ==
    {[username |-> "user1", email |-> "user1@example.com", password |-> "password123"],
     [username |-> "user2", email |-> "user2@example.com", password |-> "password123"]}

-----------------------------------------------------------------------------
(* app/models.py *)

\* UserCreate: the registration form
UserCreate == [username : Usernames, email : Emails, password : Passwords]

\* UserLogin: the login form
UserLogin == [username : Usernames, password : Passwords]

\* User(...): id is given by the database at insert, is_active defaults to True
User(id, username, email, password_hash) ==
    [id |-> id, username |-> username, email |-> email,
     password_hash |-> password_hash, is_active |-> TRUE]

\* fault: no unique constraint on the table
UniqueViolationOff(row, table) == FALSE

\* fault: unique=True on users.email only
UniqueViolationEmailOnly(row, table) == \E u \in table : u.email = row.email

\* unique=True on users.username and users.email: would inserting row break it?

UniqueViolation(row, table) ==
    \E u \in table : u.username = row.username \/ u.email = row.email

-----------------------------------------------------------------------------
(* app/auth_service.py *)

\* hashlib.sha256(password.encode()).hexdigest(), on the passwords used here
Sha256Hex(password) ==
    CASE password = "password123" ->
           "ef92b778bafe771e89245b89ecbc08a44a4e166c06659911881f383d4473e94f"
      [] password = "password456" ->
           "c6ba91b90d922e159893f46c387e5dc1b3dc5c101a5a4522f03b987177a24a91"
      [] password = "1234567" ->
           "8bb0cf6eb9b17d0f7d22b456f121257dc1254e1f01665370476383ea776df414"
      [] password = "12345678" ->
           "ef797c8118f02dfb649607dd5d3f8c7623048c9c063d532cc95c5ed7a898a64f"
      [] password = "correct_password" ->
           "8d7ca5d29a095c2b365538467c3cf65e31cd48178ef8983213bf2995b9c5549e"
      [] password = "wrong_password" ->
           "8b6308341eeeab569dc420933ecd4d955b4ed3ade17eafa650f011e93acb434f"
      [] password = "test_password_123" ->
           "67dafc9ecaa7d08d35bc0ab67dde6ac29aec6faf70c17266be868f097d262dc1"

\* fault: a salt that changes from call to call goes into the digest
hash_passwordSalted(password) ==
    IF next_user_id % 2 = 1 THEN Sha256Hex(password) ELSE Sha256Hex("test_password_123")

\* fault: the password is stored as it is
hash_passwordPlain(password) == password

hash_password(password) == Sha256Hex(password)

\* fault: any text as long as a digest passes
verify_passwordAny(password, password_hash) == Len(password_hash) = Len(Sha256Hex(password))

verify_password(password, password_hash) == Sha256Hex(password) = password_hash

\* the passwords hash_password and verify_password are called with directly
HashInputs == Passwords \cup {"correct_password", "wrong_password", "test_password_123"}

\* what verify_password is given as password_hash: digests, and a password
\* as it was typed
DigestInputs == {Sha256Hex(password) : password \in HashInputs} \cup {"password123"}

\* fault: the select looks at the username only
ExistingUsersUsernameOnly(table, user_data) ==
    {u \in table : u.username = user_data.username}

\* select(User).where((User.username == ...) | (User.email == ...))

ExistingUsers(table, user_data) ==
    {u \in table : u.username = user_data.username \/ u.email = user_data.email}

\* the outcome of a call: the rows returned (<<>> for None), the boolean
\* returned, and the exception raised ("" for none)
Outcome(op, args, ret, ok, err) ==
    [op |-> op, args |-> args, ret |-> ret, ok |-> ok, err |-> err]

NoCall == Outcome("", [x |-> 0], <<>>, FALSE, "")

\* AuthService.hash_password(password), called directly
HashPassword(password) ==
    /\ result' = Outcome("hash_password", [password |-> password],
                         <<hash_password(password)>>, TRUE, "")
    /\ UNCHANGED <<users, sneezes, next_user_id, next_sneeze_id, now, reg, registered>>

\* AuthService.verify_password(password, password_hash), called directly;
\* ok is the value returned
VerifyPassword(password, password_hash) ==
    /\ result' = Outcome("verify_password",
                         [password |-> password, password_hash |-> password_hash],
                         <<>>, verify_password(password, password_hash), "")
    /\ UNCHANGED <<users, sneezes, next_user_id, next_sneeze_id, now, reg, registered>>

\* user = AuthService.register_user(user_data): the caller's copy
Registered(user, user_data) ==
    [id |-> user.id, username |-> user_data.username, email |-> user_data.email,
     password |-> user_data.password]

\* fault: a registration under a taken username or email takes the place of
\* the rows that hold them
RegisterUserReplace(user_data) ==
    /\ LET new_user == User(next_user_id, user_data.username, user_data.email,
                            hash_password(user_data.password))
       IN  /\ users' = (users \ ExistingUsers(users, user_data)) \cup {new_user}
           /\ next_user_id' = next_user_id + 1
           /\ registered' = registered \cup {Registered(new_user, user_data)}
           /\ result' = Outcome("register_user", user_data, <<new_user>>, TRUE, "")
    /\ UNCHANGED <<sneezes, next_sneeze_id, now, reg>>

\* register_user, one call at a time
RegisterUser(user_data) ==
    /\ IF ExistingUsers(users, user_data) # {}
         THEN /\ result' = Outcome("register_user", user_data, <<>>, FALSE, "")
              /\ UNCHANGED <<users, next_user_id, registered>>
         ELSE LET new_user == User(next_user_id, user_data.username, user_data.email,
                                   hash_password(user_data.password))
              IN  IF UniqueViolation(new_user, users)
                    THEN /\ result' = Outcome("register_user", user_data, <<>>, FALSE,
                                              "IntegrityError")
                         /\ UNCHANGED <<users, next_user_id, registered>>
                    ELSE /\ users' = users \cup {new_user}
                         /\ next_user_id' = next_user_id + 1
                         /\ registered' = registered \cup {Registered(new_user, user_data)}
                         /\ result' = Outcome("register_user", user_data, <<new_user>>,
                                              TRUE, "")
    /\ UNCHANGED <<sneezes, next_sneeze_id, now, reg>>

\* the user row a lookup by username finds (.first()): <<>> or <<row>>
FirstByUsername(table, username) ==
    IF \E u \in table : u.username = username
      THEN <<CHOOSE u \in table : u.username = username>>
      ELSE <<>>

\* fault: is_active is not looked at
AuthenticateNoActiveCheck(login_data) ==
    LET found == FirstByUsername(users, login_data.username)
        user  == found[1]
    IN  /\ result' =
              IF found = <<>>
                THEN Outcome("authenticate_user", login_data, <<>>, FALSE, "")
              ELSE IF ~verify_password(login_data.password, user.password_hash)
                THEN Outcome("authenticate_user", login_data, <<>>, FALSE, "")
              ELSE Outcome("authenticate_user", login_data, <<user>>, TRUE, "")
        /\ UNCHANGED <<users, sneezes, next_user_id, next_sneeze_id, now, reg, registered>>

\* fault: an inactive account is reported by an exception of its own
AuthenticateLeaky(login_data) ==
    LET found == FirstByUsername(users, login_data.username)
        user  == found[1]
    IN  /\ result' =
              IF found = <<>>
                THEN Outcome("authenticate_user", login_data, <<>>, FALSE, "")
              ELSE IF ~user.is_active
                THEN Outcome("authenticate_user", login_data, <<>>, FALSE, "AccountInactive")
              ELSE IF ~verify_password(login_data.password, user.password_hash)
                THEN Outcome("authenticate_user", login_data, <<>>, FALSE, "")
              ELSE Outcome("authenticate_user", login_data, <<user>>, TRUE, "")
        /\ UNCHANGED <<users, sneezes, next_user_id, next_sneeze_id, now, reg, registered>>

\* fault: a wrong password locks the account
AuthenticateLockout(login_data) ==
    LET found == FirstByUsername(users, login_data.username)
        user  == found[1]
    IN  /\ result' =
              IF found = <<>>
                THEN Outcome("authenticate_user", login_data, <<>>, FALSE, "")
              ELSE IF ~user.is_active
                THEN Outcome("authenticate_user", login_data, <<>>, FALSE, "")
              ELSE IF ~verify_password(login_data.password, user.password_hash)
                THEN Outcome("authenticate_user", login_data, <<>>, FALSE, "")
              ELSE Outcome("authenticate_user", login_data, <<user>>, TRUE, "")
        /\ users' =
              IF found # <<>> /\ ~verify_password(login_data.password, user.password_hash)
                THEN (users \ {user}) \cup {[user EXCEPT !.is_active = FALSE]}
                ELSE users
        /\ UNCHANGED <<sneezes, next_user_id, next_sneeze_id, now, reg, registered>>

\* authenticate_user
AuthenticateUser(login_data) ==
    LET found == FirstByUsername(users, login_data.username)
        user  == found[1]
    IN  /\ result' =
              IF found = <<>>
                THEN Outcome("authenticate_user", login_data, <<>>, FALSE, "")
              ELSE IF ~user.is_active
                THEN Outcome("authenticate_user", login_data, <<>>, FALSE, "")
              ELSE IF ~verify_password(login_data.password, user.password_hash)
                THEN Outcome("authenticate_user", login_data, <<>>, FALSE, "")
              ELSE Outcome("authenticate_user", login_data, <<user>>, TRUE, "")
        /\ UNCHANGED <<users, sneezes, next_user_id, next_sneeze_id, now, reg, registered>>

\* get_user_by_id: session.get(User, user_id)
GetUserById(user_id) ==
    /\ result' = Outcome("get_user_by_id", [user_id |-> user_id],
                         IF \E u \in users : u.id = user_id
                           THEN <<CHOOSE u \in users : u.id = user_id>>
                           ELSE <<>>,
                         \E u \in users : u.id = user_id, "")
    /\ UNCHANGED <<users, sneezes, next_user_id, next_sneeze_id, now, reg, registered>>

\* get_user_by_username
GetUserByUsername(username) ==
    /\ result' = Outcome("get_user_by_username", [username |-> username],
                         FirstByUsername(users, username),
                         FirstByUsername(users, username) # <<>>, "")
    /\ UNCHANGED <<users, sneezes, next_user_id, next_sneeze_id, now, reg, registered>>

\* the account is deactivated or reactivated directly in the table
\* (user.is_active = False; session.add(user); session.commit())
SetActive(user_id, active) ==
    /\ \E u \in users :
          /\ u.id = user_id
          /\ u.is_active # active
          /\ users' = (users \ {u}) \cup {[u EXCEPT !.is_active = active]}
    /\ result' = Outcome("set_active", [user_id |-> user_id, active |-> active],
                         <<>>, TRUE, "")
    /\ UNCHANGED <<sneezes, next_user_id, next_sneeze_id, now, reg, registered>>

-----------------------------------------------------------------------------
(* Calendar: a datetime is a number of clock values since 1 January Epoch,   *)
(* 00:00:00                                                                  *)

Epoch == 2024

MonthsPerYear == 12

TicksPerMonth == DaysPerMonth * TicksPerDay

\* datetime(year, month, day): midnight of that day
DateTime(year, month, day) ==
    ((year - Epoch) * MonthsPerYear + (month - 1)) * TicksPerMonth + (day - 1) * TicksPerDay

\* .year, .month, .day of a datetime
YearOf(t) == Epoch + (t \div (MonthsPerYear * TicksPerMonth))

MonthOf(t) == ((t \div TicksPerMonth) % MonthsPerYear) + 1

DayOf(t) == ((t % TicksPerMonth) \div TicksPerDay) + 1

\* the clock when the application starts: the last clock value of December
ClockStart == DateTime(Epoch + 1, 1, 1) - 1

\* the timestamps the tests write into stored rows
BackfillTimes == {DateTime(Epoch, 1, 2), DateTime(Epoch + 1, 1, 1)}

\* local time minus UTC, in clock values: date.today() is the local date
TzOffsets == {-1, 0, 1}

-----------------------------------------------------------------------------
(* app/models.py: the sneezes table *)

SeverityLevel == {"light", "moderate", "heavy", "explosive"}

\* fault: the timestamp is read from the clock once, when the program starts
SneezeFrozenStamp(id, user_id, severity, notes, clock) ==
    [id |-> id, user_id |-> user_id, timestamp |-> ClockStart, severity |-> severity,
     notes |-> notes, created_at |-> clock]

\* Sneeze(user_id=..., severity=..., notes=..., timestamp=datetime.utcnow());
\* created_at defaults to datetime.utcnow(), id is given by the database
Sneeze(id, user_id, severity, notes, clock) ==
    [id |-> id, user_id |-> user_id, timestamp |-> clock, severity |-> severity,
     notes |-> notes, created_at |-> clock]

\* fault: the database does not enforce the foreign key
ForeignKeyViolationOff(row, table) == FALSE

\* foreign_key="users.id", taken as enforced by the database: would inserting
\* row break it?
ForeignKeyViolation(row, table) == ~\E u \in table : u.id = row.user_id

-----------------------------------------------------------------------------
(* app/sneeze_service.py *)

Min(a, b) == IF a < b THEN a ELSE b

\* fault: the row gets the smallest id no stored row carries
CreateSneezeReuseId(user_id, sneeze_data) ==
    LET free == {i \in 1..next_sneeze_id : \A r \in sneezes : r.id # i}
        new_sneeze == Sneeze(CHOOSE i \in free : \A j \in free : i <= j, user_id,
                             sneeze_data.severity, sneeze_data.notes, now)
        args == [user_id |-> user_id, severity |-> sneeze_data.severity,
                 notes |-> sneeze_data.notes]
    IN  /\ IF ForeignKeyViolation(new_sneeze, users)
             THEN /\ result' = Outcome("create_sneeze", args, <<>>, FALSE, "IntegrityError")
                  /\ UNCHANGED <<sneezes, next_sneeze_id>>
             ELSE /\ sneezes' = sneezes \cup {new_sneeze}
                  /\ next_sneeze_id' = next_sneeze_id + 1
                  /\ result' = Outcome("create_sneeze", args, <<new_sneeze>>, TRUE, "")
        /\ UNCHANGED <<users, next_user_id, now, reg, registered>>

\* create_sneeze
CreateSneeze(user_id, sneeze_data) ==
    LET new_sneeze == Sneeze(next_sneeze_id, user_id, sneeze_data.severity,
                             sneeze_data.notes, now)
        args == [user_id |-> user_id, severity |-> sneeze_data.severity,
                 notes |-> sneeze_data.notes]
    IN  /\ IF ForeignKeyViolation(new_sneeze, users)
             THEN /\ result' = Outcome("create_sneeze", args, <<>>, FALSE, "IntegrityError")
                  /\ UNCHANGED <<sneezes, next_sneeze_id>>
             ELSE /\ sneezes' = sneezes \cup {new_sneeze}
                  /\ next_sneeze_id' = next_sneeze_id + 1
                  /\ result' = Outcome("create_sneeze", args, <<new_sneeze>>, TRUE, "")
        /\ UNCHANGED <<users, next_user_id, now, reg, registered>>

\* fault: ascending order
OldestRows(rows) == {r \in rows : \A q \in rows : r.timestamp <= q.timestamp}

\* the rows of a set with the largest timestamp
NewestRows(rows) == {r \in rows : \A q \in rows : r.timestamp >= q.timestamp}

\* .order_by(desc(Sneeze.timestamp)): the orders the database may return the
\* rows in; it is free to put rows of equal timestamp in any order
RECURSIVE OrderByDesc(_)
OrderByDesc(rows) ==
    IF rows = {} THEN {<<>>}
    ELSE UNION {{<<r>> \o rest : rest \in OrderByDesc(rows \ {r})} : r \in NewestRows(rows)}

\* fault: the limit keeps the tail of the order
LimitFromTail(seq, limit) ==
    IF limit = NoLimit THEN seq ELSE SubSeq(seq, Len(seq) - Min(limit, Len(seq)) + 1, Len(seq))

\* query.limit(limit), applied when limit is not None
Limit(seq, limit) ==
    IF limit = NoLimit THEN seq ELSE SubSeq(seq, 1, Min(limit, Len(seq)))

\* fault: the where clause is missing
SneezesOfAll(table, user_id) == table

\* select(Sneeze).where(Sneeze.user_id == user_id)

SneezesOf(table, user_id) == {r \in table : r.user_id = user_id}

\* get_user_sneezes
GetUserSneezes(user_id, limit) ==
    /\ \E ordered \in OrderByDesc(SneezesOf(sneezes, user_id)) :
          result' = Outcome("get_user_sneezes", [user_id |-> user_id, limit |-> limit],
                            Limit(ordered, limit), TRUE, "")
    /\ UNCHANGED <<users, sneezes, next_user_id, next_sneeze_id, now, reg, registered>>

\* fault: the upper bound of the month is taken inclusive
GetSneezesByMonthInclusive(user_id, year, month) ==
    LET start_date == DateTime(year, month, 1)
        end_date   == IF month = 12 THEN DateTime(year + 1, 1, 1)
                                    ELSE DateTime(year, month + 1, 1)
        rows == {r \in sneezes : /\ r.user_id = user_id
                                 /\ r.timestamp >= start_date
                                 /\ r.timestamp <= end_date}
    IN  /\ \E ordered \in OrderByDesc(rows) :
              result' = Outcome("get_sneezes_by_month",
                                [user_id |-> user_id, year |-> year, month |-> month],
                                ordered, TRUE, "")
        /\ UNCHANGED <<users, sneezes, next_user_id, next_sneeze_id, now, reg, registered>>

\* get_sneezes_by_month
GetSneezesByMonth(user_id, year, month) ==
    LET start_date == DateTime(year, month, 1)
        end_date   == IF month = 12 THEN DateTime(year + 1, 1, 1)
                                    ELSE DateTime(year, month + 1, 1)
        rows == {r \in sneezes : /\ r.user_id = user_id
                                 /\ r.timestamp >= start_date
                                 /\ r.timestamp < end_date}
    IN  /\ \E ordered \in OrderByDesc(rows) :
              result' = Outcome("get_sneezes_by_month",
                                [user_id |-> user_id, year |-> year, month |-> month],
                                ordered, TRUE, "")
        /\ UNCHANGED <<users, sneezes, next_user_id, next_sneeze_id, now, reg, registered>>

\* fault: the select looks at the id only
FindSneezeAnyOwner(table, sneeze_id, user_id) == {r \in table : r.id = sneeze_id}

\* select(Sneeze).where(and_(Sneeze.id == sneeze_id, Sneeze.user_id == user_id))

FindSneeze(table, sneeze_id, user_id) ==
    {r \in table : r.id = sneeze_id /\ r.user_id = user_id}

\* get_sneeze_by_id
GetSneezeById(sneeze_id, user_id) ==
    LET found == FindSneeze(sneezes, sneeze_id, user_id)
    IN  /\ result' = Outcome("get_sneeze_by_id",
                             [sneeze_id |-> sneeze_id, user_id |-> user_id],
                             IF found = {} THEN <<>> ELSE <<CHOOSE r \in found : TRUE>>,
                             found # {}, "")
        /\ UNCHANGED <<users, sneezes, next_user_id, next_sneeze_id, now, reg, registered>>

\* fault: the notes are written whether or not the form carries them
UpdateSneezeOverwrite(sneeze_id, user_id, update_data) ==
    LET found == FindSneeze(sneezes, sneeze_id, user_id)
        args == [sneeze_id |-> sneeze_id, user_id |-> user_id,
                 severity |-> update_data.severity, notes |-> update_data.notes]
    IN  /\ IF found = {}
             THEN /\ result' = Outcome("update_sneeze", args, <<>>, FALSE, "")
                  /\ UNCHANGED sneezes
             ELSE LET sneeze == CHOOSE r \in found : TRUE
                      s1 == IF update_data.severity # None
                              THEN [sneeze EXCEPT !.severity = update_data.severity]
                              ELSE sneeze
                      s2 == [s1 EXCEPT !.notes = IF update_data.notes # None
                                                   THEN update_data.notes ELSE ""]
                  IN  /\ sneezes' = (sneezes \ {sneeze}) \cup {s2}
                      /\ result' = Outcome("update_sneeze", args, <<s2>>, TRUE, "")
        /\ UNCHANGED <<users, next_user_id, next_sneeze_id, now, reg, registered>>

\* fault: the row is stored anew, created_at taken from the clock again
UpdateSneezeRecreate(sneeze_id, user_id, update_data) ==
    LET found == FindSneeze(sneezes, sneeze_id, user_id)
        args == [sneeze_id |-> sneeze_id, user_id |-> user_id,
                 severity |-> update_data.severity, notes |-> update_data.notes]
    IN  /\ IF found = {}
             THEN /\ result' = Outcome("update_sneeze", args, <<>>, FALSE, "")
                  /\ UNCHANGED sneezes
             ELSE LET sneeze == CHOOSE r \in found : TRUE
                      s1 == IF update_data.severity # None
                              THEN [sneeze EXCEPT !.severity = update_data.severity]
                              ELSE sneeze
                      s2 == IF update_data.notes # None
                              THEN [s1 EXCEPT !.notes = update_data.notes]
                              ELSE s1
                      s3 == [s2 EXCEPT !.created_at = now]
                  IN  /\ sneezes' = (sneezes \ {sneeze}) \cup {s3}
                      /\ result' = Outcome("update_sneeze", args, <<s3>>, TRUE, "")
        /\ UNCHANGED <<users, next_user_id, next_sneeze_id, now, reg, registered>>

\* update_sneeze
UpdateSneeze(sneeze_id, user_id, update_data) ==
    LET found == FindSneeze(sneezes, sneeze_id, user_id)
        args == [sneeze_id |-> sneeze_id, user_id |-> user_id,
                 severity |-> update_data.severity, notes |-> update_data.notes]
    IN  /\ IF found = {}
             THEN /\ result' = Outcome("update_sneeze", args, <<>>, FALSE, "")
                  /\ UNCHANGED sneezes
             ELSE LET sneeze == CHOOSE r \in found : TRUE
                      s1 == IF update_data.severity # None
                              THEN [sneeze EXCEPT !.severity = update_data.severity]
                              ELSE sneeze
                      s2 == IF update_data.notes # None
                              THEN [s1 EXCEPT !.notes = update_data.notes]
                              ELSE s1
                  IN  /\ sneezes' = (sneezes \ {sneeze}) \cup {s2}
                      /\ result' = Outcome("update_sneeze", args, <<s2>>, TRUE, "")
        /\ UNCHANGED <<users, next_user_id, next_sneeze_id, now, reg, registered>>

\* fault: every row of the user goes with the one that is deleted
DeleteSneezeAll(sneeze_id, user_id) ==
    LET found == FindSneeze(sneezes, sneeze_id, user_id)
        args == [sneeze_id |-> sneeze_id, user_id |-> user_id]
    IN  /\ IF found = {}
             THEN /\ result' = Outcome("delete_sneeze", args, <<>>, FALSE, "")
                  /\ UNCHANGED sneezes
             ELSE /\ sneezes' = {r \in sneezes : r.user_id # user_id}
                  /\ result' = Outcome("delete_sneeze", args, <<>>, TRUE, "")
        /\ UNCHANGED <<users, next_user_id, next_sneeze_id, now, reg, registered>>

\* fault: the row is reported deleted and stays in the table
DeleteSneezeSoft(sneeze_id, user_id) ==
    LET found == FindSneeze(sneezes, sneeze_id, user_id)
        args == [sneeze_id |-> sneeze_id, user_id |-> user_id]
    IN  /\ result' = Outcome("delete_sneeze", args, <<>>, found # {}, "")
        /\ UNCHANGED <<users, sneezes, next_user_id, next_sneeze_id, now, reg, registered>>

\* delete_sneeze
DeleteSneeze(sneeze_id, user_id) ==
    LET found == FindSneeze(sneezes, sneeze_id, user_id)
        args == [sneeze_id |-> sneeze_id, user_id |-> user_id]
    IN  /\ IF found = {}
             THEN /\ result' = Outcome("delete_sneeze", args, <<>>, FALSE, "")
                  /\ UNCHANGED sneezes
             ELSE /\ sneezes' = sneezes \ {CHOOSE r \in found : TRUE}
                  /\ result' = Outcome("delete_sneeze", args, <<>>, TRUE, "")
        /\ UNCHANGED <<users, next_user_id, next_sneeze_id, now, reg, registered>>

\* fault: the sneezes of today are left out of the count of the month
GetSneezeStatsMonthToDate(user_id, tz) ==
    LET rows == SneezesOf(sneezes, user_id)
        today == now + tz
        today_start == DateTime(YearOf(today), MonthOf(today), DayOf(today))
        month_start == DateTime(YearOf(today), MonthOf(today), 1)
        stats ==
            [total_count |-> Cardinality(rows),
             severity_counts |->
                 [severity \in SeverityLevel |->
                     Cardinality({r \in rows : r.severity = severity})],
             today_count |->
                 Cardinality({r \in rows : r.timestamp >= today_start}),
             this_month_count |->
                 Cardinality({r \in rows : /\ r.timestamp >= month_start
                                           /\ r.timestamp < today_start})]
    IN  /\ result' = Outcome("get_sneeze_stats", [user_id |-> user_id, tz |-> tz],
                             <<stats>>, TRUE, "")
        /\ UNCHANGED <<users, sneezes, next_user_id, next_sneeze_id, now, reg, registered>>

\* fault: only the severities that occur among the rows get a count
GetSneezeStatsSparse(user_id, tz) ==
    LET rows == SneezesOf(sneezes, user_id)
        today == now + tz
        today_start == DateTime(YearOf(today), MonthOf(today), DayOf(today))
        month_start == DateTime(YearOf(today), MonthOf(today), 1)
        stats ==
            [total_count |-> Cardinality(rows),
             severity_counts |->
                 [severity \in {r.severity : r \in rows} |->
                     Cardinality({r \in rows : r.severity = severity})],
             today_count |->
                 Cardinality({r \in rows : r.timestamp >= today_start}),
             this_month_count |->
                 Cardinality({r \in rows : r.timestamp >= month_start})]
    IN  /\ result' = Outcome("get_sneeze_stats", [user_id |-> user_id, tz |-> tz],
                             <<stats>>, TRUE, "")
        /\ UNCHANGED <<users, sneezes, next_user_id, next_sneeze_id, now, reg, registered>>

\* get_sneeze_stats; tz is the offset of the local clock date.today() reads
GetSneezeStats(user_id, tz) ==
    LET rows == SneezesOf(sneezes, user_id)
        today == now + tz
        today_start == DateTime(YearOf(today), MonthOf(today), DayOf(today))
        month_start == DateTime(YearOf(today), MonthOf(today), 1)
        stats ==
            IF rows = {}
              THEN [total_count |-> 0,
                    severity_counts |-> [severity \in SeverityLevel |-> 0],
                    today_count |-> 0,
                    this_month_count |-> 0]
              ELSE [total_count |-> Cardinality(rows),
                    severity_counts |->
                        [severity \in SeverityLevel |->
                            Cardinality({r \in rows : r.severity = severity})],
                    today_count |->
                        Cardinality({r \in rows : r.timestamp >= today_start}),
                    this_month_count |->
                        Cardinality({r \in rows : r.timestamp >= month_start})]
    IN  /\ result' = Outcome("get_sneeze_stats", [user_id |-> user_id, tz |-> tz],
                             <<stats>>, TRUE, "")
        /\ UNCHANGED <<users, sneezes, next_user_id, next_sneeze_id, now, reg, registered>>

\* a stored row is given another timestamp directly in the table
\* (sneeze.timestamp = datetime(...); session.add(sneeze); session.commit())
SetTimestamp(sneeze_id, timestamp) ==
    /\ \E r \in sneezes :
          /\ r.id = sneeze_id
          /\ r.timestamp # timestamp
          /\ sneezes' = (sneezes \ {r}) \cup {[r EXCEPT !.timestamp = timestamp]}
    /\ result' = Outcome("set_timestamp", [sneeze_id |-> sneeze_id, timestamp |-> timestamp],
                         <<>>, TRUE, "")
    /\ UNCHANGED <<users, next_user_id, next_sneeze_id, now, reg, registered>>

\* time passes
Tick ==
    /\ now < ClockStart + MaxTicks
    /\ now' = now + 1
    /\ UNCHANGED <<users, sneezes, next_user_id, next_sneeze_id, result, reg, registered>>

-----------------------------------------------------------------------------
(* register_user of concurrent clients: the select and the commit are two   *)
(* steps of the client's session; the database checks the unique            *)
(* constraints of the table when the INSERT is committed.                   *)

Idle == [pc |-> "idle", user_data |-> [username |-> "", email |-> "", password |-> ""],
         ret |-> <<>>, err |-> ""]

\* with get_session() ...: existing_user = session.exec(select ...).first()
RegisterSelect(c, user_data) ==
    /\ reg[c].pc \in {"idle", "done"}
    /\ IF ExistingUsers(users, user_data) # {}
         THEN reg' = [reg EXCEPT ![c] = [pc |-> "done", user_data |-> user_data,
                                         ret |-> <<>>, err |-> ""]]
         ELSE reg' = [reg EXCEPT ![c] = [pc |-> "insert", user_data |-> user_data,
                                         ret |-> <<>>, err |-> ""]]
    /\ UNCHANGED <<users, sneezes, next_user_id, next_sneeze_id, now, result, registered,
                   before, session, txn, page, ui>>

\* fault: the row stays in the table when the commit is refused
RegisterCommitPartial(c) ==
    /\ reg[c].pc = "insert"
    /\ LET user_data == reg[c].user_data
           new_user  == User(next_user_id, user_data.username, user_data.email,
                             hash_password(user_data.password))
       IN  IF UniqueViolation(new_user, users)
             THEN /\ reg' = [reg EXCEPT ![c].pc = "done", ![c].err = "IntegrityError"]
                  /\ users' = users \cup {new_user}
                  /\ UNCHANGED <<next_user_id, registered>>
             ELSE /\ users' = users \cup {new_user}
                  /\ next_user_id' = next_user_id + 1
                  /\ registered' = registered \cup {Registered(new_user, user_data)}
                  /\ reg' = [reg EXCEPT ![c].pc = "done", ![c].ret = <<new_user>>]
    /\ UNCHANGED <<sneezes, next_sneeze_id, now, result, before, session, txn, page, ui>>

\* session.add(new_user); session.commit(); session.refresh(new_user)
RegisterCommit(c) ==
    /\ reg[c].pc = "insert"
    /\ LET user_data == reg[c].user_data
           new_user  == User(next_user_id, user_data.username, user_data.email,
                             hash_password(user_data.password))
       IN  IF UniqueViolation(new_user, users)
             THEN /\ reg' = [reg EXCEPT ![c].pc = "done", ![c].err = "IntegrityError"]
                  /\ UNCHANGED <<users, next_user_id, registered>>
             ELSE /\ users' = users \cup {new_user}
                  /\ next_user_id' = next_user_id + 1
                  /\ registered' = registered \cup {Registered(new_user, user_data)}
                  /\ reg' = [reg EXCEPT ![c].pc = "done", ![c].ret = <<new_user>>]
    /\ UNCHANGED <<sneezes, next_sneeze_id, now, result, before, session, txn, page, ui>>

-----------------------------------------------------------------------------
(* update_sneeze and delete_sneeze of concurrent clients: the select, the    *)
(* commit and the refresh are steps of the client's session. The commit of   *)
(* update_sneeze sends UPDATE sneezes SET <the columns assigned another      *)
(* value> WHERE id = <the id of the row read>, the commit of delete_sneeze   *)
(* DELETE FROM sneezes WHERE id = <the id of the row read>; the database     *)
(* runs the statements one at a time. Kept with the call: whether the row   *)
(* was in the table at the moment of the commit ("stored").                  *)

NoTxn == [pc |-> "idle", op |-> "",
          args |-> [sneeze_id |-> 0, user_id |-> 0, severity |-> None, notes |-> None],
          row |-> <<>>, stored |-> FALSE, ret |-> <<>>, ok |-> FALSE, err |-> ""]

\* the call of a writer
Txn(c) == IF c \in DOMAIN txn THEN txn[c] ELSE NoTxn

\* the row of the table with the id of the row the client read
Stored(c) == {r \in sneezes : r.id = Txn(c).row[1].id}

\* sneeze = session.exec(select(Sneeze).where(...)).first(); return None
SneezeSelect(c, op, sneeze_id, user_id, update_data) ==
    LET found == FindSneeze(sneezes, sneeze_id, user_id)
        args == [sneeze_id |-> sneeze_id, user_id |-> user_id,
                 severity |-> update_data.severity, notes |-> update_data.notes]
    IN  /\ Txn(c).pc \in {"idle", "done"}
        /\ IF found = {}
             THEN txn' = Put(txn, c, [NoTxn EXCEPT !.pc = "done", !.op = op,
                                                  !.args = args])
             ELSE txn' = Put(txn, c, [NoTxn EXCEPT !.pc = "commit", !.op = op,
                                                  !.args = args,
                                                  !.row = <<CHOOSE r \in found : TRUE>>])
        /\ UNCHANGED <<users, sneezes, next_user_id, next_sneeze_id, now, result, reg,
                       registered, before, session, page, ui>>

\* update_sneeze: the select
UpdateSelect(c, sneeze_id, user_id, update_data) ==
    SneezeSelect(c, "update_sneeze", sneeze_id, user_id, update_data)

\* delete_sneeze: the select
DeleteSelect(c, sneeze_id, user_id) ==
    SneezeSelect(c, "delete_sneeze", sneeze_id, user_id, [severity |-> None, notes |-> None])

\* the columns of the row read that the assignments of update_sneeze gave
\* another value
Dirty(c) ==
    {col \in {"severity", "notes"} :
        /\ Txn(c).args[col] # None
        /\ Txn(c).args[col] # Txn(c).row[1][col]}

\* fault: the commit stores the row the client holds, in the table or not
UpdateCommitUpsert(c) ==
    /\ Txn(c).pc = "commit"
    /\ Txn(c).op = "update_sneeze"
    /\ LET sneeze == Txn(c).row[1]
           held   == [sneeze EXCEPT
                        !.severity = IF "severity" \in Dirty(c) THEN Txn(c).args.severity
                                                                ELSE @,
                        !.notes    = IF "notes" \in Dirty(c) THEN Txn(c).args.notes
                                                             ELSE @]
       IN  /\ sneezes' = (sneezes \ Stored(c)) \cup {held}
           /\ txn' = [txn EXCEPT ![c].pc = "refresh", ![c].stored = (Stored(c) # {})]
    /\ UNCHANGED <<users, next_user_id, next_sneeze_id, now, result, reg, registered,
                   before, session, page, ui>>

\* update_sneeze: session.add(sneeze); session.commit(). An UPDATE that
\* matches no row makes the commit raise StaleDataError; with no column to
\* write no statement is sent.
UpdateCommit(c) ==
    /\ Txn(c).pc = "commit"
    /\ Txn(c).op = "update_sneeze"
    /\ IF Dirty(c) = {}
         THEN /\ txn' = [txn EXCEPT ![c].pc = "refresh", ![c].stored = (Stored(c) # {})]
              /\ UNCHANGED sneezes
         ELSE IF Stored(c) = {}
                THEN /\ txn' = [txn EXCEPT ![c].pc = "done", ![c].stored = FALSE,
                                            ![c].err = "StaleDataError"]
                     /\ UNCHANGED sneezes
                ELSE /\ sneezes' =
                          {IF r \in Stored(c)
                             THEN [r EXCEPT
                                     !.severity = IF "severity" \in Dirty(c)
                                                    THEN Txn(c).args.severity ELSE @,
                                     !.notes    = IF "notes" \in Dirty(c)
                                                    THEN Txn(c).args.notes ELSE @]
                             ELSE r : r \in sneezes}
                     /\ txn' = [txn EXCEPT ![c].pc = "refresh", ![c].stored = TRUE]
    /\ UNCHANGED <<users, next_user_id, next_sneeze_id, now, result, reg, registered,
                   before, session, page, ui>>

\* update_sneeze: session.refresh(sneeze); return sneeze. The refresh of a
\* row that is no longer in the table raises InvalidRequestError.
UpdateRefresh(c) ==
    /\ Txn(c).pc = "refresh"
    /\ IF Stored(c) = {}
         THEN txn' = [txn EXCEPT ![c].pc = "done", ![c].err = "InvalidRequestError"]
         ELSE txn' = [txn EXCEPT ![c].pc = "done", ![c].ok = TRUE,
                                 ![c].ret = <<CHOOSE r \in Stored(c) : TRUE>>]
    /\ UNCHANGED <<users, sneezes, next_user_id, next_sneeze_id, now, result, reg,
                   registered, before, session, page, ui>>

\* delete_sneeze: session.delete(sneeze); session.commit(); return True. A
\* DELETE that matches no row is a warning, not an error.
DeleteCommit(c) ==
    /\ Txn(c).pc = "commit"
    /\ Txn(c).op = "delete_sneeze"
    /\ sneezes' = sneezes \ Stored(c)
    /\ txn' = [txn EXCEPT ![c].pc = "done", ![c].stored = (Stored(c) # {}),
                            ![c].ok = TRUE]
    /\ UNCHANGED <<users, next_user_id, next_sneeze_id, now, result, reg, registered,
                   before, session, page, ui>>

-----------------------------------------------------------------------------
(* Validation of the forms of app/models.py. A form is built from what the  *)
(* caller typed; building it raises ValidationError when a field breaks its *)
(* Field(...) constraint, and the service is then never called. An email is *)
(* written here as the sequence of its characters.                          *)

\* the characters emails are typed from: "a" stands for a letter or digit
EmailAlphabet == {"a", "@", "."}

MaxEmailLen == 5

EmailInputs == UNION {[1..n -> EmailAlphabet] : n \in 1..MaxEmailLen}

\* the character classes [a-zA-Z0-9_.+-], [a-zA-Z0-9-] and [a-zA-Z0-9-.]
LocalChars == {"a", "_", ".", "+", "-"}

DomainChars == {"a", "-"}

TailChars == {"a", "-", "."}

\* fault: any text with an @ in it passes
EmailMatchesAnyAt(email) == \E i \in 1..Len(email) : email[i] = "@"

\* regex=r"^[a-zA-Z0-9_.+-]+@[a-zA-Z0-9-]+\.[a-zA-Z0-9-.]+$"
EmailMatches(email) ==
    \E at \in 2..Len(email), dot \in 4..Len(email) :
        /\ at + 1 < dot
        /\ dot < Len(email)
        /\ \A i \in 1..(at - 1) : email[i] \in LocalChars
        /\ email[at] = "@"
        /\ \A i \in (at + 1)..(dot - 1) : email[i] \in DomainChars
        /\ email[dot] = "."
        /\ \A i \in (dot + 1)..Len(email) : email[i] \in TailChars

\* password: str = Field(min_length=8, ...)
MinPasswordLength == 8

\* notes: str = Field(default="", max_length=1000)
MaxNotesLength == 1000

\* does UserCreate(username=..., email=..., password=...) validate?
UserCreateValid(username, email, password) ==
    /\ Len(username) <= 50
    /\ Len(email) <= 255
    /\ EmailMatches(email)
    /\ Len(password) >= MinPasswordLength
    /\ Len(password) <= 100

\* does SneezeCreate(severity=..., notes=...) validate?
SneezeCreateValid(severity, notes) ==
    /\ severity \in SeverityLevel
    /\ Len(notes) <= MaxNotesLength

\* does SneezeUpdate(severity=..., notes=...) validate? Both are Optional
SneezeUpdateValid(severity, notes) ==
    /\ severity \in SeverityLevel \cup {None}
    /\ notes # None => Len(notes) <= MaxNotesLength

\* a text of n characters
RECURSIVE Repeat(_, _)
Repeat(c, n) ==
    IF n = 0 THEN ""
    ELSE LET half == Repeat(c, n \div 2)
         IN  IF n % 2 = 0 THEN half \o half ELSE c \o half \o half

\* what callers type as notes: nothing, the longest notes allowed, one more
LongNotesInputs == {"", Repeat("x", MaxNotesLength), Repeat("x", MaxNotesLength + 1)}

\* a value that is no member of SeverityLevel
SeverityInputs == SeverityLevel \cup {"sniffle"}

\* the call stopped at the form
ValidationError(op, args) ==
    /\ result' = Outcome(op, args, <<>>, FALSE, "ValidationError")
    /\ UNCHANGED <<users, sneezes, next_user_id, next_sneeze_id, now, reg, registered>>

\* AuthService.register_user(UserCreate(username=..., email=..., password=...))
RegisterFrom(username, email, password) ==
    IF UserCreateValid(username, email, password)
      THEN RegisterUser([username |-> username, email |-> email, password |-> password])
      ELSE ValidationError("register_user",
                           [username |-> username, email |-> email, password |-> password])

\* SneezeService.create_sneeze(user_id, SneezeCreate(severity=..., notes=...))
CreateSneezeFrom(user_id, severity, notes) ==
    IF SneezeCreateValid(severity, notes)
      THEN CreateSneeze(user_id, [severity |-> severity, notes |-> notes])
      ELSE ValidationError("create_sneeze",
                           [user_id |-> user_id, severity |-> severity, notes |-> notes])

\* SneezeService.update_sneeze(sneeze_id, user_id, SneezeUpdate(...))
UpdateSneezeFrom(sneeze_id, user_id, severity, notes) ==
    IF SneezeUpdateValid(severity, notes)
      THEN UpdateSneeze(sneeze_id, user_id, [severity |-> severity, notes |-> notes])
      ELSE ValidationError("update_sneeze",
                           [sneeze_id |-> sneeze_id, user_id |-> user_id,
                            severity |-> severity, notes |-> notes])

-----------------------------------------------------------------------------
(* Specifications *)

\* what app.storage.user.get("user_id") gives when the key is missing; the
\* ids the database gives start at 1
NoUserId == 0

\* the tabs of a browser; they share the browser's app.storage.user
Tabs == {"tab1", "tab2"}

\* a tab that shows no page of the application
Blank == [path |-> "", user_id |-> NoUserId]

\* what a tab shows
Shown(b, t) == IF <<b, t>> \in DOMAIN page THEN page[<<b, t>>] ELSE Blank

\* a page function or handler that ran in a tab, and where it sent the tab
\* with ui.navigate.to
UiEvent(b, t, handler, navigate) ==
    [browser |-> b, tab |-> t, handler |-> handler, navigate |-> navigate]

NoEvent == UiEvent("", "", "", None)

\* no call in progress: nothing kept
NoSnapshot == [users |-> {}, sneezes |-> {}]

\* the database after create_tables(): both tables empty
Init ==
    /\ users = {}
    /\ sneezes = {}
    /\ next_user_id = 1
    /\ next_sneeze_id = 1
    /\ now = ClockStart
    /\ result = NoCall
    /\ reg = [c \in Clients |-> Idle]
    /\ registered = {}
    /\ before = NoSnapshot
    /\ session = Empty
    /\ txn = Empty
    /\ page = Empty
    /\ ui = NoEvent

-----------------------------------------------------------------------------
(* The pages of app/auth_ui.py, app/dashboard_ui.py and app/sneezes_ui.py.  *)
(* A page function runs when a tab loads the page; the handlers it builds   *)
(* run when the user clicks, with the variables of the page function as     *)
(* they were when the page was built. ui.navigate.to leaves the tab blank   *)
(* until it loads the next page.                                            *)

\* limit=5 of display_recent_sneezes
RecentLimit == 5

\* the handler returns without calling a service
NoService ==
    UNCHANGED <<users, sneezes, next_user_id, next_sneeze_id, now, result, reg,
                registered, before, txn>>

\* the handler calls a service: the tables as the call finds them are kept
Serve ==
    /\ before' = [users |-> users, sneezes |-> sneezes]
    /\ UNCHANGED txn

\* no handler is running: the next page function or handler may run
Ready ==
    /\ result = NoCall
    /\ ui = NoEvent

\* the page function or handler has returned
Done ==
    /\ ui # NoEvent
    /\ result' = NoCall
    /\ before' = NoSnapshot
    /\ ui' = NoEvent
    /\ UNCHANGED <<users, sneezes, next_user_id, next_sneeze_id, now, reg, registered,
                   session, txn, page>>

\* AuthUI.require_auth(): the user_id of the session, or none
require_auth(b) == IF b \in DOMAIN session THEN session[b].user_id ELSE NoUserId

\* @ui.page("/login") login_page, @ui.page("/register") register_page
AuthPage(b, t, path) ==
    /\ Ready
    /\ NoService
    /\ page' = Put(page, <<b, t>>, [path |-> path, user_id |-> NoUserId])
    /\ ui' = UiEvent(b, t, path, None)
    /\ UNCHANGED session

\* handle_login
HandleLogin(b, t, username, password) ==
    /\ Ready
    /\ Shown(b, t).path = "/login"
    /\ IF username = "" \/ password = ""
         THEN /\ NoService
              /\ ui' = UiEvent(b, t, "handle_login", None)
              /\ UNCHANGED <<session, page>>
         ELSE /\ Serve
              /\ AuthenticateUser([username |-> username, password |-> password])
              /\ IF result'.ret = <<>>
                   THEN /\ ui' = UiEvent(b, t, "handle_login", None)
                        /\ UNCHANGED <<session, page>>
                   ELSE /\ session' = Put(session, b,
                                           [user_id  |-> result'.ret[1].id,
                                            username |-> result'.ret[1].username])
                        /\ ui' = UiEvent(b, t, "handle_login", "/dashboard")
                        /\ page' = Drop(page, <<b, t>>)

\* handle_register
HandleRegister(b, t, username, email, password, confirm_password) ==
    /\ Ready
    /\ Shown(b, t).path = "/register"
    /\ IF \/ username = "" \/ email = <<>> \/ password = "" \/ confirm_password = ""
          \/ password # confirm_password
          \/ Len(password) < MinPasswordLength
         THEN /\ NoService
              /\ ui' = UiEvent(b, t, "handle_register", None)
              /\ UNCHANGED <<session, page>>
         ELSE /\ Serve
              /\ RegisterFrom(username, email, password)
              /\ IF result'.ret = <<>>
                   THEN /\ ui' = UiEvent(b, t, "handle_register", None)
                        /\ UNCHANGED <<session, page>>
                   ELSE /\ session' = Put(session, b,
                                           [user_id  |-> result'.ret[1].id,
                                            username |-> result'.ret[1].username])
                        /\ ui' = UiEvent(b, t, "handle_register", "/dashboard")
                        /\ page' = Drop(page, <<b, t>>)

\* AuthUI.logout, the on_click of the dashboard's Logout button
Logout(b, t) ==
    /\ Ready
    /\ Shown(b, t).path = "/dashboard"
    /\ NoService
    /\ session' = Drop(session, b)
    /\ ui' = UiEvent(b, t, "logout", "/login")
    /\ page' = Drop(page, <<b, t>>)

\* user_id = AuthUI.require_auth(); if user_id is None: return
Redirected(b, t, handler) ==
    /\ NoService
    /\ ui' = UiEvent(b, t, handler, "/login")
    /\ page' = Drop(page, <<b, t>>)
    /\ UNCHANGED session

\* @ui.page("/dashboard") dashboard_page: create_stats_section and
\* display_recent_sneezes; the call kept in result is either of the two
DashboardPage(b, t) ==
    LET user_id == require_auth(b)
    IN  /\ Ready
        /\ IF user_id = NoUserId
             THEN Redirected(b, t, "dashboard_page")
             ELSE /\ Serve
                  /\ \/ GetSneezeStats(user_id, 0)
                     \/ GetUserSneezes(user_id, RecentLimit)
                  /\ page' = Put(page, <<b, t>>, [path |-> "/dashboard", user_id |-> user_id])
                  /\ ui' = UiEvent(b, t, "dashboard_page", None)
                  /\ UNCHANGED session

\* @ui.page("/add-sneeze") add_sneeze_page
AddSneezePage(b, t) ==
    LET user_id == require_auth(b)
    IN  /\ Ready
        /\ IF user_id = NoUserId
             THEN Redirected(b, t, "add_sneeze_page")
             ELSE /\ NoService
                  /\ page' = Put(page, <<b, t>>, [path |-> "/add-sneeze", user_id |-> user_id])
                  /\ ui' = UiEvent(b, t, "add_sneeze_page", None)
                  /\ UNCHANGED session

\* handle_add_sneeze, built by add_sneeze_page with its user_id
HandleAddSneeze(b, t, severity, notes) ==
    /\ Ready
    /\ Shown(b, t).path = "/add-sneeze"
    /\ IF severity = None
         THEN /\ NoService
              /\ ui' = UiEvent(b, t, "handle_add_sneeze", None)
              /\ UNCHANGED <<session, page>>
         ELSE /\ Serve
              /\ CreateSneezeFrom(Shown(b, t).user_id, severity, notes)
              /\ IF result'.ret = <<>>
                   THEN /\ ui' = UiEvent(b, t, "handle_add_sneeze", None)
                        /\ UNCHANGED page
                   ELSE /\ ui' = UiEvent(b, t, "handle_add_sneeze", "/dashboard")
                        /\ page' = Drop(page, <<b, t>>)
              /\ UNCHANGED session

\* @ui.page("/sneezes") sneezes_page: create_filters and display_all_sneezes
SneezesPage(b, t) ==
    LET user_id == require_auth(b)
    IN  /\ Ready
        /\ IF user_id = NoUserId
             THEN Redirected(b, t, "sneezes_page")
             ELSE /\ Serve
                  /\ GetUserSneezes(user_id, NoLimit)
                  /\ page' = Put(page, <<b, t>>, [path |-> "/sneezes", user_id |-> user_id])
                  /\ ui' = UiEvent(b, t, "sneezes_page", None)
                  /\ UNCHANGED session

\* apply_filter, built by create_filters with the user_id of sneezes_page
ApplyFilter(b, t, year, month) ==
    /\ Ready
    /\ Shown(b, t).path = "/sneezes"
    /\ Serve
    /\ GetSneezesByMonth(Shown(b, t).user_id, year, month)
    /\ ui' = UiEvent(b, t, "apply_filter", None)
    /\ UNCHANGED <<session, page>>

\* the on_click of Show All, built with the user_id of sneezes_page
ShowAll(b, t) ==
    /\ Ready
    /\ Shown(b, t).path = "/sneezes"
    /\ Serve
    /\ GetUserSneezes(Shown(b, t).user_id, NoLimit)
    /\ ui' = UiEvent(b, t, "display_all_sneezes", None)
    /\ UNCHANGED <<session, page>>

-----------------------------------------------------------------------------
\* the caller is between two calls and starts one: the tables as the call
\* finds them are kept for comparison
Call ==
    /\ result = NoCall
    /\ before' = [users |-> users, sneezes |-> sneezes]
    /\ UNCHANGED <<session, txn, page, ui>>

\* the caller has taken the outcome of its call
Return ==
    /\ result # NoCall
    /\ result' = NoCall
    /\ before' = NoSnapshot
    /\ UNCHANGED <<users, sneezes, next_user_id, next_sneeze_id, now, reg, registered,
                   session, txn, page, ui>>

NextAuth ==
    \/ \E user_data \in UserCreate : Call /\ RegisterUser(user_data)
    \/ \E login_data \in UserLogin : Call /\ AuthenticateUser(login_data)
    \/ \E user_id \in 1..(Cardinality(Usernames) + 1) : Call /\ GetUserById(user_id)
    \/ \E username \in Usernames : Call /\ GetUserByUsername(username)
    \/ \E user_id \in 1..Cardinality(Usernames), active \in BOOLEAN :
          Call /\ SetActive(user_id, active)
    \/ \E password \in HashInputs : Call /\ HashPassword(password)
    \/ \E password \in HashInputs, password_hash \in DigestInputs :
          Call /\ VerifyPassword(password, password_hash)
    \/ /\ next_sneeze_id <= MaxSneezes - 2
       /\ \E user_id \in 1..Cardinality(Usernames) :
             Call /\ CreateSneeze(user_id, [severity |-> "light", notes |-> ""])
    \/ \E sneeze_id \in 1..next_sneeze_id, user_id \in 1..Cardinality(Usernames) :
          Call /\ UpdateSneeze(sneeze_id, user_id, [severity |-> "heavy", notes |-> None])
    \/ \E sneeze_id \in 1..next_sneeze_id, user_id \in 1..Cardinality(Usernames) :
          Call /\ DeleteSneeze(sneeze_id, user_id)
    \/ \E sneeze_id \in 1..next_sneeze_id, user_id \in 1..Cardinality(Usernames) :
          Call /\ GetSneezeById(sneeze_id, user_id)
    \/ \E user_id \in 1..Cardinality(Usernames) : Call /\ GetUserSneezes(user_id, NoLimit)
    \/ \E user_id \in 1..Cardinality(Usernames) :
          Call /\ GetSneezesByMonth(user_id, YearOf(now), MonthOf(now))
    \/ \E user_id \in 1..Cardinality(Usernames) : Call /\ GetSneezeStats(user_id, 0)
    \/ Return

SpecAuth == Init /\ [][NextAuth]_vars

NextReg ==
    \/ \E c \in Clients, user_data \in UserCreate : RegisterSelect(c, user_data)
    \/ \E c \in Clients : RegisterCommit(c)

SpecReg == Init /\ [][NextReg]_vars

\* SneezeCreate and SneezeUpdate, the forms of the event service
SneezeCreate == [severity : SeverityLevel, notes : NotesInputs]

SneezeUpdate == [severity : SeverityLevel \cup {None}, notes : {None, "Updated note"}]

\* the event service: creating, changing, deleting and looking up sneezes of
\* every severity and note, all at one clock value; one sneeze fewer than in
\* SpecTime
Next ==
    \/ \E user_data \in FixtureUsers : Call /\ RegisterUser(user_data)
    \/ /\ next_sneeze_id <= MaxSneezes - 1
       /\ \E user_id \in UserIdInputs, sneeze_data \in SneezeCreate :
             Call /\ CreateSneeze(user_id, sneeze_data)
    \/ \E sneeze_id \in 1..next_sneeze_id, user_id \in UserIdInputs :
          Call /\ GetSneezeById(sneeze_id, user_id)
    \/ \E sneeze_id \in 1..next_sneeze_id, user_id \in UserIdInputs,
          update_data \in SneezeUpdate :
             Call /\ UpdateSneeze(sneeze_id, user_id, update_data)
    \/ \E sneeze_id \in 1..next_sneeze_id, user_id \in UserIdInputs :
          Call /\ DeleteSneeze(sneeze_id, user_id)
    \/ \E user_id \in UserIdInputs : Call /\ GetUserSneezes(user_id, NoLimit)
    \/ \E user_id \in UserIdInputs : Call /\ GetSneezeStats(user_id, 0)
    \/ Return

Spec == Init /\ [][Next]_vars

\* the event service over time: listing, filtering and counting sneezes of
\* different timestamps
NextTime ==
    \/ \E user_data \in FixtureUsers : Call /\ RegisterUser(user_data)
    \/ /\ next_sneeze_id <= MaxSneezes
       /\ \E user_id \in UserIdInputs :
             Call /\ CreateSneeze(user_id, [severity |-> "light", notes |-> ""])
    \/ \E sneeze_id \in 1..next_sneeze_id, timestamp \in BackfillTimes :
          Call /\ SetTimestamp(sneeze_id, timestamp)
    \/ result = NoCall /\ UNCHANGED <<before, session, txn, page, ui>> /\ Tick
    \/ \E sneeze_id \in 1..next_sneeze_id, user_id \in UserIdInputs :
          Call /\ DeleteSneeze(sneeze_id, user_id)
    \/ \E sneeze_id \in 1..next_sneeze_id, user_id \in UserIdInputs :
          Call /\ GetSneezeById(sneeze_id, user_id)
    \/ \E user_id \in UserIdInputs, limit \in {NoLimit} \cup 0..MaxLimit :
          Call /\ GetUserSneezes(user_id, limit)
    \/ \E user_id \in UserIdInputs, year \in {Epoch, Epoch + 1}, month \in {1, 12} :
          Call /\ GetSneezesByMonth(user_id, year, month)
    \/ \E user_id \in UserIdInputs, tz \in TzOffsets :
          Call /\ GetSneezeStats(user_id, tz)
    \/ Return

SpecTime == Init /\ [][NextTime]_vars

\* timestamps given to stored sneezes before they are counted: earlier in the
\* month of the clock, and in another month
StatsTimes == {DateTime(Epoch, MonthsPerYear, 1), DateTime(Epoch, 1, 2)}

\* counting the sneezes of a user, which differ in severity and in
\* timestamp, and those of an id that names no user
NextStats ==
    \/ \E user_data \in {d \in FixtureUsers : d.username = "user1"} :
          Call /\ RegisterUser(user_data)
    \/ /\ next_sneeze_id <= MaxSneezes
       /\ \E user_id \in UserIdInputs, severity \in {"light", "heavy"} :
             Call /\ CreateSneeze(user_id, [severity |-> severity, notes |-> ""])
    \/ \E sneeze_id \in 1..next_sneeze_id, timestamp \in StatsTimes :
          Call /\ SetTimestamp(sneeze_id, timestamp)
    \/ result = NoCall /\ UNCHANGED <<before, session, txn, page, ui>> /\ Tick
    \/ \E user_id \in UserIdInputs, tz \in TzOffsets :
          Call /\ GetSneezeStats(user_id, tz)
    \/ Return

SpecStats == Init /\ [][NextStats]_vars

\* the life of a sneeze from create_sneeze to delete_sneeze while the clock
\* advances: updated, given another timestamp, read
NextLife ==
    \/ \E user_data \in FixtureUsers : Call /\ RegisterUser(user_data)
    \/ /\ next_sneeze_id <= MaxSneezes - 2
       /\ \E user_id \in UserIdInputs :
             Call /\ CreateSneeze(user_id, [severity |-> "light", notes |-> ""])
    \/ \E sneeze_id \in 1..next_sneeze_id, user_id \in UserIdInputs,
          update_data \in [severity : {None, "heavy"}, notes : {None, "Updated note"}] :
             Call /\ UpdateSneeze(sneeze_id, user_id, update_data)
    \/ \E sneeze_id \in 1..next_sneeze_id, timestamp \in BackfillTimes :
          Call /\ SetTimestamp(sneeze_id, timestamp)
    \/ result = NoCall /\ UNCHANGED <<before, session, txn, page, ui>> /\ Tick
    \/ \E sneeze_id \in 1..next_sneeze_id, user_id \in UserIdInputs :
          Call /\ DeleteSneeze(sneeze_id, user_id)
    \/ \E sneeze_id \in 1..next_sneeze_id, user_id \in UserIdInputs :
          Call /\ GetSneezeById(sneeze_id, user_id)
    \/ Return

SpecLife == Init /\ [][NextLife]_vars

\* calls that fail: clients registering the same username at the same time,
\* logins with a wrong password or an unknown username, sneezes created for
\* an id that names no user, updates and deletes of rows that are missing or
\* belong to another user
NextFail ==
    \/ \E c \in Clients, user_data \in {d \in UserCreate : /\ d.username = "user1"
                                                         /\ d.password = "password123"} :
          result = NoCall /\ RegisterSelect(c, user_data)
    \/ \E c \in Clients : result = NoCall /\ RegisterCommit(c)
    \/ \E login_data \in UserLogin : Call /\ AuthenticateUser(login_data)
    \/ /\ next_sneeze_id <= MaxSneezes - 2
       /\ \E user_id \in UserIdInputs :
             Call /\ CreateSneeze(user_id, [severity |-> "light", notes |-> ""])
    \/ \E sneeze_id \in 1..next_sneeze_id, user_id \in UserIdInputs :
          Call /\ UpdateSneeze(sneeze_id, user_id, [severity |-> "heavy", notes |-> None])
    \/ \E sneeze_id \in 1..next_sneeze_id, user_id \in UserIdInputs :
          Call /\ DeleteSneeze(sneeze_id, user_id)
    \/ Return

SpecFail == Init /\ [][NextFail]_vars

\* clients updating and deleting the sneezes of a user at the same time
NextRace ==
    \/ \E user_data \in FixtureUsers : Call /\ RegisterUser(user_data)
    \/ /\ next_sneeze_id <= MaxSneezes - 2
       /\ \E user_id \in UserIdInputs :
             Call /\ CreateSneeze(user_id, [severity |-> "light", notes |-> ""])
    \/ \E c \in Writers, sneeze_id \in 1..next_sneeze_id, user_id \in UserIdInputs,
          update_data \in [severity : {None, "heavy"}, notes : {None}] :
             result = NoCall /\ UpdateSelect(c, sneeze_id, user_id, update_data)
    \/ \E c \in Writers : result = NoCall /\ UpdateCommit(c)
    \/ \E c \in Writers : result = NoCall /\ UpdateRefresh(c)
    \/ \E c \in Writers, sneeze_id \in 1..next_sneeze_id, user_id \in UserIdInputs :
          result = NoCall /\ DeleteSelect(c, sneeze_id, user_id)
    \/ \E c \in Writers : result = NoCall /\ DeleteCommit(c)
    \/ Return

SpecRace == Init /\ [][NextRace]_vars

\* what is typed into the username and email fields of the register form
RegisterForms ==
    {[username |-> "user1", email |-> <<"a", "@", "a", ".", "a">>],
     [username |-> "user2", email |-> <<".", "@", "a", ".", "a">>],
     [username |-> "user2", email |-> <<"a", "@", "a">>]}

\* browsers with two tabs each using the pages: registering, signing in and
\* out, recording and listing sneezes
NextUI ==
    \/ \E b \in Browsers, t \in Tabs, path \in {"/login", "/register"} : AuthPage(b, t, path)
    \/ \E b \in Browsers, t \in Tabs, username \in {"", "user1"},
          password \in {"password123", "password456"} :
             HandleLogin(b, t, username, password)
    \/ \E b \in Browsers, t \in Tabs, form \in RegisterForms,
          password \in {"password123", "1234567"} :
             HandleRegister(b, t, form.username, form.email, password, "password123")
    \/ \E b \in Browsers, t \in Tabs : Logout(b, t)
    \/ \E b \in Browsers, t \in Tabs : DashboardPage(b, t)
    \/ \E b \in Browsers, t \in Tabs : AddSneezePage(b, t)
    \/ /\ next_sneeze_id <= MaxSneezes - 2
       /\ \E b \in Browsers, t \in Tabs, severity \in {None, "light"} :
             HandleAddSneeze(b, t, severity, "")
    \/ \E b \in Browsers, t \in Tabs : SneezesPage(b, t)
    \/ \E b \in Browsers, t \in Tabs : ApplyFilter(b, t, YearOf(now), MonthOf(now))
    \/ \E b \in Browsers, t \in Tabs : ShowAll(b, t)
    \/ Done

SpecUI == Init /\ [][NextUI]_vars

\* callers that type anything into the forms: emails of every shape,
\* passwords of seven and of eight characters, notes of 1000 and of 1001
\* characters, a severity that does not exist
NextForm ==
    \/ /\ next_sneeze_id = 1
       /\ \E email \in EmailInputs, password \in {"1234567", "12345678"} :
             Call /\ RegisterFrom("user1", email, password)
    \/ /\ next_sneeze_id <= MaxSneezes - 2
       /\ \E severity \in SeverityInputs, notes \in LongNotesInputs :
             Call /\ CreateSneezeFrom(1, severity, notes)
    \/ \E sneeze_id \in 1..next_sneeze_id, severity \in SeverityInputs \cup {None},
          notes \in LongNotesInputs \cup {None} :
             Call /\ UpdateSneezeFrom(sneeze_id, 1, severity, notes)
    \/ \E sneeze_id \in 1..next_sneeze_id : Call /\ DeleteSneeze(sneeze_id, 1)
    \/ Return

SpecForm == Init /\ [][NextForm]_vars

\* sneezes created one after the other, at the same clock value or at
\* different ones, and listed; no timestamp is changed afterwards
NextOrder ==
    \/ \E user_data \in FixtureUsers : Call /\ RegisterUser(user_data)
    \/ /\ next_sneeze_id <= MaxSneezes
       /\ \E user_id \in UserIdInputs :
             Call /\ CreateSneeze(user_id, [severity |-> "light", notes |-> ""])
    \/ result = NoCall /\ UNCHANGED <<before, session, txn, page, ui>> /\ Tick
    \/ \E sneeze_id \in 1..next_sneeze_id, user_id \in UserIdInputs :
          Call /\ DeleteSneeze(sneeze_id, user_id)
    \/ \E user_id \in UserIdInputs, limit \in {NoLimit, MaxLimit - 1} :
          Call /\ GetUserSneezes(user_id, limit)
    \/ Return

SpecOrder == Init /\ [][NextOrder]_vars

-----------------------------------------------------------------------------
(* Properties of the identity service *)

\* C1: in every reachable state of the users table, under any interleaving of
\* register_user calls, no two distinct rows share a username and no two
\* distinct rows share an email.
C1_UsersUnique ==
    \A u, v \in users :
        u # v => u.id # v.id /\ u.username # v.username /\ u.email # v.email

\* two rows are stored and a client's commit was refused by the constraint
C1_Witness ==
    /\ Cardinality(users) = 2
    /\ \E c \in Clients : reg[c].pc = "done" /\ reg[c].err = "IntegrityError"

\* C2: of the register_user calls of two clients with the same username, whatever
\* the interleaving of their selects and commits, at most one creates a user; and
\* a commit stores a row only if the table, as it is at the commit, holds no row
\* with that username or email (select and insert act as one step).
C2_NoDoubleRegistration ==
    /\ [](\A c, d \in Clients :
            (/\ c # d
             /\ reg[c].pc = "done" /\ reg[d].pc = "done"
             /\ reg[c].user_data.username = reg[d].user_data.username)
            => ~(reg[c].ret # <<>> /\ reg[d].ret # <<>>))
    /\ [][\A c \in Clients :
            (reg[c].pc = "insert" /\ reg'[c].pc = "done" /\ reg'[c].ret # <<>>)
            => /\ ~\E u \in users : \/ u.username = reg[c].user_data.username
                                    \/ u.email = reg[c].user_data.email
               /\ users' = users \cup {reg'[c].ret[1]}]_vars

\* two clients sent the same username with different emails, both passed the
\* select, one created the user and the other's commit was refused
C2_Witness ==
    \E c, d \in Clients :
        /\ c # d
        /\ reg[c].pc = "done" /\ reg[d].pc = "done"
        /\ reg[c].user_data.username = reg[d].user_data.username
        /\ reg[c].user_data.email # reg[d].user_data.email
        /\ reg[c].ret # <<>>
        /\ reg[d].ret = <<>> /\ reg[d].err = "IntegrityError"

\* C3: register_user returns None exactly when a stored user has the same
\* username or the same email, and then stores nothing; otherwise it adds exactly
\* one row, with a fresh id, the form's username and email, is_active = TRUE and
\* password_hash = hash_password(password), and returns that row.
C3_RegisterContract ==
    [][(result'.op = "register_user" /\ result' # result) =>
         LET d == result'.args
             conflict == \E u \in users : u.username = d.username \/ u.email = d.email
         IN  /\ result'.err = ""
             /\ (result'.ret = <<>>) <=> conflict
             /\ conflict => users' = users
             /\ ~conflict =>
                  LET r == result'.ret[1]
                  IN  /\ Len(result'.ret) = 1
                      /\ r \notin users
                      /\ \A u \in users : u.id # r.id
                      /\ users' = users \cup {r}
                      /\ r.username = d.username
                      /\ r.email = d.email
                      /\ r.is_active = TRUE
                      /\ r.password_hash = Sha256Hex(d.password)]_vars

\* a second registration reused the email of a stored user under another
\* username and got None
C3_Witness ==
    /\ result.op = "register_user"
    /\ result.ret = <<>>
    /\ \E u \in users : u.email = result.args.email
    /\ ~\E u \in users : u.username = result.args.username

\* C6: once register_user has returned a user, authenticate_user with that
\* username and the password of the registration returns the user with the same
\* id, as long as the account is active.
C6_AuthenticateAfterRegister ==
    result.op = "authenticate_user" =>
        \A r \in registered :
            (/\ r.username = result.args.username
             /\ r.password = result.args.password
             /\ \E u \in users : u.id = r.id /\ u.is_active)
            => /\ Len(result.ret) = 1
               /\ result.ret[1].id = r.id
               /\ result.ret[1].username = r.username

\* a registered, active user has just authenticated
C6_Witness ==
    /\ result.op = "authenticate_user"
    /\ result.ret # <<>>
    /\ \E r \in registered : r.id = result.ret[1].id /\ r.password = result.args.password

\* why authenticate_user(login_data) must fail in the current state, "" if nothing
FailureCause(login_data) ==
    IF ~\E u \in users : u.username = login_data.username THEN "unknown username"
    ELSE IF \E u \in users : u.username = login_data.username /\ ~u.is_active
      THEN "inactive account"
    ELSE IF \E r \in registered :
              r.username = login_data.username /\ r.password # login_data.password
      THEN "wrong password"
    ELSE ""

\* C7: authenticate_user returns no user when no stored user has the username,
\* when the stored user is inactive (even with the right password), and when the
\* password is not the one the digest was made of.
C7_AuthenticateFails ==
    result.op = "authenticate_user" =>
        /\ (~\E u \in users : u.username = result.args.username) => result.ret = <<>>
        /\ (\E u \in users : u.username = result.args.username /\ ~u.is_active)
              => result.ret = <<>>
        /\ (\E r \in registered : /\ r.username = result.args.username
                                 /\ r.password # result.args.password)
              => result.ret = <<>>

\* an inactive user was refused although the password was right
C7_Witness ==
    /\ result.op = "authenticate_user"
    /\ result.ret = <<>>
    /\ \E r \in registered :
          /\ r.username = result.args.username
          /\ r.password = result.args.password
          /\ \E u \in users : u.id = r.id /\ ~u.is_active

\* C8: whichever of the three causes makes authenticate_user fail, the caller
\* gets the same outcome (None, no exception) and the call leaves the tables as
\* they were.
C8_UniformFailure ==
    [][result'.op = "authenticate_user" =>
         /\ FailureCause(result'.args) # "" =>
               /\ result'.ret = <<>>
               /\ result'.ok = FALSE
               /\ result'.err = ""
         /\ users' = users
         /\ sneezes' = sneezes
         /\ next_user_id' = next_user_id
         /\ next_sneeze_id' = next_sneeze_id]_vars

\* a login fails with a wrong password while another account is inactive and
\* a third username is unknown: all three causes occur in the same table
C8_Witness ==
    /\ result.op = "authenticate_user"
    /\ FailureCause(result.args) = "wrong password"
    /\ \E l \in UserLogin : FailureCause(l) = "inactive account"

-----------------------------------------------------------------------------
(* Properties of the event service *)

\* the rows of a sequence
Rows(seq) == {seq[i] : i \in 1..Len(seq)}

\* consecutive rows a, b of the sequence have a.timestamp >= b.timestamp
NewestFirst(seq) ==
    \A i \in 1..(Len(seq) - 1) : seq[i].timestamp >= seq[i + 1].timestamp

\* the stored rows of a user
Owned(user_id) == {r \in sneezes : r.user_id = user_id}

\* C4: a sneeze of user A is never seen through the id of another user B:
\* get_user_sneezes (with or without limit), get_sneezes_by_month and
\* get_sneeze_by_id called with B return only rows whose user_id is B, and
\* get_sneeze_stats of B counts the rows of B alone.
C4_OwnerIsolation ==
    /\ result.op \in {"get_user_sneezes", "get_sneezes_by_month", "get_sneeze_by_id"}
          => \A i \in 1..Len(result.ret) :
                /\ result.ret[i].user_id = result.args.user_id
                /\ result.ret[i] \in sneezes
    /\ result.op = "get_sneeze_stats"
          => LET stats == result.ret[1]
                 own == Owned(result.args.user_id)
             IN  /\ stats.total_count = Cardinality(own)
                 /\ \A severity \in SeverityLevel :
                       stats.severity_counts[severity] =
                           Cardinality({r \in own : r.severity = severity})
                 /\ stats.today_count <= Cardinality(own)
                 /\ stats.this_month_count <= Cardinality(own)

\* a user lists its sneezes while another user has sneezes too
C4_Witness ==
    /\ result.op = "get_user_sneezes"
    /\ result.ret # <<>>
    /\ \E r \in sneezes : r.user_id # result.args.user_id

\* C5: update_sneeze returns None and delete_sneeze returns False whenever no
\* row has both the id and the user_id of the call (the sneeze is missing or
\* belongs to another user), and then no row is changed or removed.
C5_NotFoundLeavesRows ==
    [][(result = NoCall /\ result'.op \in {"update_sneeze", "delete_sneeze"}) =>
         LET a == result'.args
         IN  (~\E r \in sneezes : r.id = a.sneeze_id /\ r.user_id = a.user_id)
             => /\ result'.ret = <<>>
                /\ result'.ok = FALSE
                /\ result'.err = ""
                /\ sneezes' = sneezes
                /\ users' = users]_vars

\* update_sneeze was called on a stored sneeze of another user and failed
C5_Witness ==
    /\ result.op = "update_sneeze"
    /\ result.ok = FALSE
    /\ result.args.severity # None
    /\ \E r \in sneezes : /\ r.id = result.args.sneeze_id
                          /\ r.user_id # result.args.user_id
                          /\ r.severity # result.args.severity

\* C9: get_user_sneezes without limit returns every stored row of the user,
\* each once, newest timestamp first, also after timestamps were rewritten.
C9_ListComplete ==
    (result.op = "get_user_sneezes" /\ result.args.limit = NoLimit) =>
        /\ Rows(result.ret) = Owned(result.args.user_id)
        /\ Len(result.ret) = Cardinality(Owned(result.args.user_id))
        /\ NewestFirst(result.ret)

\* three sneezes of one user are listed, one of them with a rewritten
\* timestamp, and the first is strictly newer than the last
C9_Witness ==
    /\ result.op = "get_user_sneezes"
    /\ result.args.limit = NoLimit
    /\ Len(result.ret) = 3
    /\ result.ret[1].timestamp > result.ret[3].timestamp
    /\ \E r \in Rows(result.ret) : r.timestamp # r.created_at

\* C10: get_user_sneezes with limit n returns min(n, total) rows of the user,
\* newest first, each once, and no row left out is newer than a row returned:
\* the head of a newest-first order of all the user's rows.
C10_LimitIsHead ==
    (result.op = "get_user_sneezes" /\ result.args.limit # NoLimit) =>
        LET own == Owned(result.args.user_id)
        IN  /\ Len(result.ret) = Min(result.args.limit, Cardinality(own))
            /\ Rows(result.ret) \subseteq own
            /\ Cardinality(Rows(result.ret)) = Len(result.ret)
            /\ NewestFirst(result.ret)
            /\ \A r \in own \ Rows(result.ret) :
                  \A q \in Rows(result.ret) : q.timestamp >= r.timestamp

\* with three sneezes stored, limit=2 returned two and left out a strictly
\* older one
C10_Witness ==
    /\ result.op = "get_user_sneezes"
    /\ result.args.limit = 2
    /\ Len(result.ret) = 2
    /\ Cardinality(Owned(result.args.user_id)) = 3
    /\ \E r \in Owned(result.args.user_id) \ Rows(result.ret) :
          r.timestamp < result.ret[2].timestamp

\* the stored rows of a user whose timestamp falls in the calendar month
InMonth(user_id, year, month) ==
    {r \in Owned(user_id) : YearOf(r.timestamp) = year /\ MonthOf(r.timestamp) = month}

\* C11: get_sneezes_by_month(user_id, year, month) returns exactly the rows of
\* the user whose timestamp lies in that calendar month (first instant of the
\* month included, first instant of the next month excluded; for month 12 the
\* next month is January of year + 1), each once, newest first.
C11_MonthWindow ==
    result.op = "get_sneezes_by_month"
       => /\ Rows(result.ret)
                = InMonth(result.args.user_id, result.args.year, result.args.month)
          /\ Len(result.ret) = Cardinality(Rows(result.ret))
          /\ NewestFirst(result.ret)

\* December has been listed for a user who has a row at the last instant of
\* 31 December, which is returned, and a row at 00:00 of 1 January of the
\* next year, which is not
C11_Witness ==
    /\ result.op = "get_sneezes_by_month"
    /\ result.args.month = 12
    /\ \E r \in Rows(result.ret) :
          r.timestamp = DateTime(result.args.year + 1, 1, 1) - 1
    /\ \E r \in Owned(result.args.user_id) \ Rows(result.ret) :
          r.timestamp = DateTime(result.args.year + 1, 1, 1)

\* the row of the user with this id in the table as the call found it
Before(sneeze_id, user_id) ==
    {r \in before.sneezes : r.id = sneeze_id /\ r.user_id = user_id}

\* C12: update_sneeze on a row of the caller succeeds and is partial: the
\* stored severity becomes the severity of the form when the form carries
\* one and stays as it was otherwise, and the same, independently, for the
\* notes; nothing else in the table changes and the updated row is returned.
C12_PartialUpdate ==
    result.op = "update_sneeze"
       => \A old \in Before(result.args.sneeze_id, result.args.user_id) :
             LET new == [old EXCEPT
                            !.severity = IF result.args.severity = None
                                           THEN old.severity
                                           ELSE result.args.severity,
                            !.notes    = IF result.args.notes = None
                                           THEN old.notes
                                           ELSE result.args.notes]
             IN  /\ result.ok
                 /\ result.ret = <<new>>
                 /\ sneezes = (before.sneezes \ {old}) \cup {new}

\* an update that carried a severity and no notes has changed the severity of
\* a row from light to explosive and has kept the notes the row had
C12_Witness ==
    /\ result.op = "update_sneeze"
    /\ result.ok
    /\ result.args.severity = "explosive"
    /\ result.args.notes = None
    /\ result.ret[1].notes = "Original note"
    /\ \E old \in Before(result.args.sneeze_id, result.args.user_id) :
          old.severity = "light" /\ old.notes = "Original note"

\* the ids that were given to a row and that no stored row carries any more
Deleted == {i \in 1..(next_sneeze_id - 1) : \A r \in sneezes : r.id # i}

\* C13: delete_sneeze on a row of the caller returns True and takes the row,
\* and nothing else, out of the table; a row once gone never comes back: no
\* later call stores a row under its id, get_sneeze_by_id of its id returns
\* None, get_user_sneezes and get_sneezes_by_month never list it,
\* get_sneeze_stats counts stored rows only, and another delete_sneeze of
\* the id returns False.
C13_DeleteRemoves ==
    /\ result.op = "delete_sneeze"
          => LET row == Before(result.args.sneeze_id, result.args.user_id)
             IN  /\ result.ok <=> row # {}
                 /\ sneezes = before.sneezes \ row
                 /\ row # {} => result.args.sneeze_id \in Deleted
    /\ result # NoCall
          => \A r \in sneezes :
                \/ \E b \in before.sneezes : b.id = r.id
                \/ /\ result.op = "create_sneeze"
                   /\ r.id = next_sneeze_id - 1
                   /\ \A b \in before.sneezes : b.id < r.id
    /\ result.op = "get_sneeze_by_id" /\ result.args.sneeze_id \in Deleted
          => result.ret = <<>>
    /\ result.op \in {"get_user_sneezes", "get_sneezes_by_month"}
          => \A i \in 1..Len(result.ret) : result.ret[i].id \notin Deleted
    /\ result.op = "get_sneeze_stats"
          => result.ret[1].total_count = Cardinality(Owned(result.args.user_id))

\* a user who had two rows has deleted one of them
C13_Witness ==
    /\ result.op = "delete_sneeze"
    /\ result.ok
    /\ result.args.sneeze_id \in Deleted
    /\ Cardinality({b \in before.sneezes : b.user_id = result.args.user_id}) = 2
    /\ Cardinality(Owned(result.args.user_id)) = 1

\* C14: create_sneeze for a registered user and a form with one of the four
\* severities succeeds: it stores exactly one new row, under an id larger
\* than every id given before, with the caller's user_id, the severity and
\* the notes of the form (the empty string among them) and the current time
\* as timestamp and created_at, and returns that row; get_sneeze_by_id of a
\* stored row with its owner returns the row as stored, so the call that
\* follows a create returns the same severity and notes.
C14_CreateStores ==
    /\ result.op = "create_sneeze"
       /\ (\E u \in before.users : u.id = result.args.user_id)
       /\ result.args.severity \in {"light", "moderate", "heavy", "explosive"}
          => /\ result.ok
             /\ result.err = ""
             /\ Len(result.ret) = 1
             /\ LET row == result.ret[1]
                IN  /\ row.user_id = result.args.user_id
                    /\ row.severity = result.args.severity
                    /\ row.notes = result.args.notes
                    /\ row.timestamp = now
                    /\ row.created_at = now
                    /\ row.id = next_sneeze_id - 1
                    /\ \A b \in before.sneezes : b.id < row.id
                    /\ row \notin before.sneezes
                    /\ sneezes = before.sneezes \cup {row}
    /\ result.op = "get_sneeze_by_id"
          => \A r \in sneezes :
                r.id = result.args.sneeze_id /\ r.user_id = result.args.user_id
                   => result.ret = <<r>>

\* a row with empty notes has been created after an earlier row was deleted
C14_Witness ==
    /\ result.op = "create_sneeze"
    /\ result.ok
    /\ result.ret[1].notes = ""
    /\ result.ret[1].severity = "explosive"
    /\ Deleted # {}

\* the stored rows of a user whose timestamp falls on the calendar day
OnDay(user_id, year, month, day) ==
    {r \in InMonth(user_id, year, month) : DayOf(r.timestamp) = day}

\* C15: get_sneeze_stats counts with the window of get_sneezes_by_month:
\* today_count is the number of rows of the user dated on the current day
\* (start of today included, start of tomorrow excluded) and this_month_count
\* the number dated in the current month, which is the length of what
\* get_sneezes_by_month returns for the current year and month, also when
\* rows carry timestamps after the current day or month.
C15_StatsWindow ==
    result.op = "get_sneeze_stats"
       => LET today == now + result.args.tz
              stats == result.ret[1]
          IN  /\ stats.today_count
                    = Cardinality(OnDay(result.args.user_id, YearOf(today),
                                        MonthOf(today), DayOf(today)))
              /\ stats.this_month_count
                    = Cardinality(InMonth(result.args.user_id, YearOf(today),
                                          MonthOf(today)))

\* the rows of a user that were created at the current clock value and
\* still carry it as timestamp
CreatedNow(user_id) ==
    {r \in Owned(user_id) : r.created_at = now /\ r.timestamp = now}

\* C16: get_sneeze_stats called at the clock value at which rows of the user
\* were created counts every one of them in today_count and in
\* this_month_count; when the user has no other rows, today_count and
\* this_month_count both equal total_count (three rows created now give
\* 3, 3 and 3), whatever the clock value is.
C16_CreatedNowCounted ==
    result.op = "get_sneeze_stats"
       => LET stats == result.ret[1]
              fresh == CreatedNow(result.args.user_id)
          IN  /\ stats.today_count >= Cardinality(fresh)
              /\ stats.this_month_count >= Cardinality(fresh)
              /\ fresh = Owned(result.args.user_id)
                    => /\ stats.total_count = Cardinality(fresh)
                       /\ stats.today_count = stats.total_count
                       /\ stats.this_month_count = stats.total_count

\* C17: get_sneeze_stats returns without error a severity_counts map whose
\* keys are exactly light, moderate, heavy and explosive, with 0 under every
\* severity the user has no row of; for a user without rows total_count, the
\* four counts, today_count and this_month_count are all 0.
C17_AllSeverities ==
    result.op = "get_sneeze_stats"
       => LET stats == result.ret[1]
              own == Owned(result.args.user_id)
              four == {"light", "moderate", "heavy", "explosive"}
          IN  /\ result.ok
              /\ result.err = ""
              /\ DOMAIN stats.severity_counts = four
              /\ \A severity \in four :
                    (\A r \in own : r.severity # severity)
                       => stats.severity_counts[severity] = 0
              /\ own = {} => /\ stats.total_count = 0
                             /\ stats.today_count = 0
                             /\ stats.this_month_count = 0

\* statistics of a user whose two rows are both explosive: the three other
\* severities are reported with 0
C17_Witness ==
    /\ result.op = "get_sneeze_stats"
    /\ result.ret[1].total_count = 2
    /\ result.ret[1].severity_counts["explosive"] = 2
    /\ result.ret[1].severity_counts["light"] = 0

\* C18: a stored row keeps its id, its user_id and its created_at through
\* every call from its creation to its deletion: the row a call leaves under
\* an id has the user_id and the created_at the call found under that id, and
\* no two rows share an id; update_sneeze leaves the timestamp as well.
C18_OwnerImmutable ==
    /\ \A r, q \in sneezes : r.id = q.id => r = q
    /\ \A r \in sneezes, b \in before.sneezes :
          r.id = b.id => /\ r.user_id = b.user_id
                         /\ r.created_at = b.created_at
                         /\ result.op = "update_sneeze" => r.timestamp = b.timestamp

\* a row created before the clock advanced, and given another timestamp
\* since, has been updated
C18_Witness ==
    /\ result.op = "update_sneeze"
    /\ result.ok
    /\ result.args.severity # None
    /\ result.ret[1].created_at < now
    /\ result.ret[1].timestamp # result.ret[1].created_at
    /\ result.ret[1].timestamp # now

\* C19: a call that fails writes nothing. authenticate_user returning None,
\* update_sneeze returning None, delete_sneeze returning False and
\* create_sneeze refused by the database leave the users table and the
\* sneezes table as the call found them; and no step of a register_user
\* call that does not store the user changes either table: not its select,
\* whether or not it finds the name taken, and not a commit the unique
\* constraint refuses.
C19_FailureAtomic ==
    /\ [](result # NoCall /\ ~result.ok
             => users = before.users /\ sneezes = before.sneezes)
    /\ [][\A c \in Clients :
              reg'[c] # reg[c] /\ reg'[c].ret = <<>>
                 => /\ users' = users
                    /\ sneezes' = sneezes
                    /\ next_user_id' = next_user_id]_vars

\* with a user and a sneeze stored, the commit of a client has been refused
\* by the unique constraint and a delete_sneeze has returned False
C19_Witness ==
    /\ \E c \in Clients : reg[c].pc = "done" /\ reg[c].err = "IntegrityError"
    /\ users # {}
    /\ sneezes # {}
    /\ result.op = "delete_sneeze"
    /\ ~result.ok

\* C20: a user is never removed and keeps its id, username, email and
\* password hash: every row a call found in the users table is there after
\* the call, at most its is_active changed, and changed by no call of the
\* services (register_user, authenticate_user, the lookups, the sneeze
\* operations); every user register_user ever returned is stored under the id
\* returned, with the username and email of the form.
C20_UsersKept ==
    /\ \A b \in before.users :
          \E u \in users : /\ u.id = b.id
                            /\ u.username = b.username
                            /\ u.email = b.email
                            /\ u.password_hash = b.password_hash
    /\ result.op # "set_active" => before.users \subseteq users
    /\ \A g \in registered :
          \E u \in users : /\ u.id = g.id
                            /\ u.username = g.username
                            /\ u.email = g.email

\* with two users stored and one of them deactivated, a registration under
\* a taken username has been refused
C20_Witness ==
    /\ result.op = "register_user"
    /\ ~result.ok
    /\ Cardinality(users) = 2
    /\ \E u \in users : ~u.is_active
    /\ sneezes # {}

\* C21: in every reachable state the user_id of every stored sneeze is the id
\* of a stored user, and create_sneeze called with an id that names no user
\* stores nothing.
C21_ReferentialIntegrity ==
    /\ \A r \in sneezes : \E u \in users : u.id = r.user_id
    /\ result.op = "create_sneeze"
       /\ (\A u \in before.users : u.id # result.args.user_id)
          => /\ sneezes = before.sneezes
             /\ result.ret = <<>>

\* with a sneeze of user 1 stored, create_sneeze was called with an id that
\* names no user
C21_Witness ==
    /\ result.op = "create_sneeze"
    /\ \A u \in users : u.id # result.args.user_id
    /\ sneezes # {}

-----------------------------------------------------------------------------
(* Properties of the forms *)

\* the non-empty words over the characters of a class that can be typed,
\* short enough to be part of an email
Words(class) ==
    UNION {[1..n -> class \cap EmailAlphabet] : n \in 1..(MaxEmailLen - 4)}

\* the address pattern: a local part, an @, a domain, a dot, a tail
AddressPattern(email) ==
    \E local \in Words({"a", "_", ".", "+", "-"}), domain \in Words({"a", "-"}),
       tail \in Words({"a", "-", "."}) :
          email = local \o <<"@">> \o domain \o <<".">> \o tail

\* C22: a call with malformed input ends in ValidationError and stores
\* nothing: register_user with an email that does not match the address
\* pattern or a password of fewer than 8 characters, create_sneeze and
\* update_sneeze with notes of more than 1000 characters or a severity that
\* is none of the four; so every stored sneeze has one of the four
\* severities and notes, never None, of at most 1000 characters, and every
\* stored user an email that matches and a password of at least 8.
C22_MalformedRejected ==
    LET four == {"light", "moderate", "heavy", "explosive"}
        malformed ==
            \/ /\ result.op = "register_user"
               /\ \/ ~AddressPattern(result.args.email)
                  \/ Len(result.args.password) < 8
            \/ /\ result.op = "create_sneeze"
               /\ \/ result.args.severity \notin four
                  \/ Len(result.args.notes) > 1000
            \/ /\ result.op = "update_sneeze"
               /\ \/ result.args.severity \notin four \cup {None}
                  \/ result.args.notes # None /\ Len(result.args.notes) > 1000
    IN  /\ malformed => /\ result.err = "ValidationError"
                        /\ result.ret = <<>>
                        /\ users = before.users
                        /\ sneezes = before.sneezes
        /\ \A r \in sneezes : /\ r.severity \in four
                              /\ r.notes # None
                              /\ Len(r.notes) <= 1000
        /\ \A u \in users : AddressPattern(u.email)
        /\ \A g \in registered : Len(g.password) >= 8

\* an update with notes of 1001 characters has been refused for a sneeze of a
\* registered user whose notes have 1000 characters
C22_Witness ==
    /\ result.op = "update_sneeze"
    /\ result.err = "ValidationError"
    /\ Len(result.args.notes) = 1001
    /\ users # {}
    /\ \E r \in sneezes : r.id = result.args.sneeze_id /\ Len(r.notes) = 1000

-----------------------------------------------------------------------------
(* Properties of the password digest *)

\* C23: verify_password(password, password_hash) returns True exactly when
\* hash_password(password) equals password_hash: it accepts the digest of
\* the password itself and refuses the digest of every other password.
C23_VerifyIffHash ==
    result.op = "verify_password"
       => /\ result.ok <=> hash_password(result.args.password) = result.args.password_hash
          /\ \A p \in HashInputs :
                result.args.password_hash = hash_password(p)
                   => (result.ok <=> p = result.args.password)

\* the digest of one password has been refused for another password
C23_Witness ==
    /\ result.op = "verify_password"
    /\ ~result.ok
    /\ result.args.password = "wrong_password"
    /\ result.args.password_hash = hash_password("correct_password")

\* C24: hash_password returns a digest of 64 characters that is not the
\* password, and the same digest whenever it is called with the same
\* password: the digest a direct call returns is the one register_user
\* stored for every user registered with that password; no stored
\* password_hash is the password its user registered with.
C24_HashDeterministic ==
    /\ result.op = "hash_password"
          => LET digest == result.ret[1]
             IN  /\ Len(digest) = 64
                 /\ digest # result.args.password
                 /\ \A g \in registered :
                       g.password = result.args.password
                          => \E u \in users : u.id = g.id /\ u.password_hash = digest
    /\ \A g \in registered : \A u \in users :
          u.id = g.id => /\ u.password_hash # g.password
                         /\ Len(u.password_hash) = 64

\* hash_password has been called with the password two users registered with
C24_Witness ==
    /\ result.op = "hash_password"
    /\ Cardinality({g \in registered : g.password = result.args.password}) = 2

-----------------------------------------------------------------------------
(* Frame properties *)

\* C25: the reads write nothing: authenticate_user, get_user_by_id,
\* get_user_by_username, get_user_sneezes, get_sneezes_by_month,
\* get_sneeze_by_id and get_sneeze_stats leave the users table and the
\* sneezes table as they found them, whatever they return; get_user_by_id
\* and get_user_by_username return the stored user with that id or username
\* and None when there is none.
C25_ReadsWriteNothing ==
    /\ result.op \in {"authenticate_user", "get_user_by_id", "get_user_by_username",
                       "get_user_sneezes", "get_sneezes_by_month", "get_sneeze_by_id",
                       "get_sneeze_stats"}
          => users = before.users /\ sneezes = before.sneezes
    /\ result.op = "get_user_by_id"
          => /\ \A u \in users : u.id = result.args.user_id => result.ret = <<u>>
             /\ (\A u \in users : u.id # result.args.user_id) => result.ret = <<>>
    /\ result.op = "get_user_by_username"
          => /\ \A u \in users : u.username = result.args.username => result.ret = <<u>>
             /\ (\A u \in users : u.username # result.args.username)
                   => result.ret = <<>>

\* a login with a wrong password has been refused for an active user who
\* has a sneeze
C25_Witness ==
    /\ result.op = "authenticate_user"
    /\ ~result.ok
    /\ \E u \in users :
          /\ u.username = result.args.username
          /\ u.is_active
          /\ \E r \in sneezes : r.user_id = u.id

-----------------------------------------------------------------------------
(* Order of creation and order of listing *)

\* C26: of two sneezes of a user created one after the other by
\* create_sneeze, get_user_sneezes returns the one created later before the
\* one created earlier, also when both creates read the same clock value.
C26_LaterCreatedFirst ==
    result.op = "get_user_sneezes"
       => \A i, j \in 1..Len(result.ret) :
             result.ret[i].id > result.ret[j].id => i < j

\* C26 as it holds: of two sneezes of a user created one after the other by
\* create_sneeze, get_user_sneezes returns the one created later before the
\* one created earlier whenever the later create read a later clock value;
\* two creates that read the same clock value are listed in either order.
C26_LaterClockFirst ==
    result.op = "get_user_sneezes"
       => \A i, j \in 1..Len(result.ret) :
             (/\ result.ret[i].id > result.ret[j].id
              /\ result.ret[i].created_at > result.ret[j].created_at)
                => i < j

\* three sneezes of a user are listed: the one created after the clock
\* advanced comes first, the two created at the same clock value follow in
\* the order of their creation
C26_Witness ==
    /\ result.op = "get_user_sneezes"
    /\ Len(result.ret) = 3
    /\ result.ret[1].created_at > result.ret[2].created_at
    /\ result.ret[2].created_at = result.ret[3].created_at
    /\ result.ret[2].id < result.ret[3].id

\* the rows of the table the call found whose id is not the one the call
\* was given
Others == {b \in before.sneezes : b.id # result.args.sneeze_id}

\* C27: a mutation that succeeds changes one sneeze and nothing else:
\* create_sneeze adds one row and leaves every row that was there and every
\* user as they were; update_sneeze leaves the users, the number of rows and
\* every row but the one it was given, and of that row everything but
\* severity and notes; delete_sneeze leaves the users and removes the row it
\* was given and no other.
C27_OneRowChanges ==
    /\ result.op = "create_sneeze" /\ result.ok
          => /\ users = before.users
             /\ before.sneezes \subseteq sneezes
             /\ Cardinality(sneezes \ before.sneezes) = 1
    /\ result.op = "update_sneeze" /\ result.ok
          => /\ users = before.users
             /\ Others \subseteq sneezes
             /\ Cardinality(sneezes) = Cardinality(before.sneezes)
             /\ \A r \in sneezes \ Others :
                   \E b \in before.sneezes :
                      r = [b EXCEPT !.severity = r.severity, !.notes = r.notes]
    /\ result.op = "delete_sneeze" /\ result.ok
          => /\ users = before.users
             /\ sneezes = Others
             /\ Cardinality(before.sneezes) = Cardinality(sneezes) + 1

\* one of two sneezes of a user has been updated; the other one, of
\* another severity, is as it was
C27_Witness ==
    /\ result.op = "update_sneeze"
    /\ result.ok
    /\ result.args.severity = "heavy"
    /\ \E r \in Others : /\ r.user_id = result.args.user_id
                         /\ r.severity = "moderate"
                         /\ r \in sneezes

-----------------------------------------------------------------------------
(* Properties of the counts *)

\* the sum of the counts of a get_sneeze_stats result over the four
\* severities
SeverityTotal(counts) ==
    counts["light"] + counts["moderate"] + counts["heavy"] + counts["explosive"]

\* C28: the counts of get_sneeze_stats agree with the list of get_user_sneezes
\* in the same state: total_count is the length of the list the user gets
\* without a limit, whichever order ties are listed in, and is the sum of the
\* counts of the four severities, and today_count <= this_month_count <=
\* total_count.
C28_StatsAgreeWithList ==
    result.op = "get_sneeze_stats"
       => LET stats == result.ret[1]
              lists == OrderByDesc(SneezesOf(sneezes, result.args.user_id))
          IN  /\ \A list \in lists : stats.total_count = Len(list)
              /\ DOMAIN stats.severity_counts = SeverityLevel
              /\ stats.total_count = SeverityTotal(stats.severity_counts)
              /\ stats.today_count <= stats.this_month_count
              /\ stats.this_month_count <= stats.total_count

\* a user has a sneeze of today, one of earlier in the month and one of
\* another month, of two severities, and the three counts differ
C28_Witness ==
    /\ result.op = "get_sneeze_stats"
    /\ result.ret[1].severity_counts["light"] > 0
    /\ result.ret[1].severity_counts["heavy"] > 0
    /\ 0 < result.ret[1].today_count
    /\ result.ret[1].today_count < result.ret[1].this_month_count
    /\ result.ret[1].this_month_count < result.ret[1].total_count

-----------------------------------------------------------------------------
(* Properties of concurrent updates and deletes *)

\* the clients whose call on the sneeze of this id is between its select and
\* its return
Open(sneeze_id) ==
    {c \in Writers : /\ Txn(c).pc \in {"commit", "refresh"}
                     /\ Txn(c).args.sneeze_id = sneeze_id}

\* C29: update_sneeze and delete_sneeze of clients running at the same time
\* on the same sneeze of a user, in any interleaving of their selects,
\* commits and refreshes: once a delete_sneeze has returned True and no call
\* on the sneeze is still open, the sneeze is not in the table; and an
\* update_sneeze that returns the sneeze as updated found it in the table at
\* the moment of its commit.
C29_DeleteWins ==
    \A c \in Writers :
       /\ (/\ Txn(c).pc = "done"
           /\ Txn(c).op = "delete_sneeze"
           /\ Txn(c).ok
           /\ Open(Txn(c).args.sneeze_id) = {})
             => \A r \in sneezes : r.id # Txn(c).args.sneeze_id
       /\ (/\ Txn(c).pc = "done"
           /\ Txn(c).op = "update_sneeze"
           /\ Txn(c).ok)
             => /\ Txn(c).stored
                /\ Txn(c).ret # <<>>

\* one client read a sneeze to update it, another read it and deleted it,
\* and the commit of the update was then refused: the sneeze stays deleted
C29_Witness ==
    \E c, d \in Writers :
       /\ Txn(c).op = "update_sneeze"
       /\ Txn(c).pc = "done"
       /\ Txn(c).err = "StaleDataError"
       /\ Txn(d).op = "delete_sneeze"
       /\ Txn(d).pc = "done"
       /\ Txn(d).ok
       /\ Txn(d).args.sneeze_id = Txn(c).args.sneeze_id
       /\ \A r \in sneezes : r.id # Txn(c).args.sneeze_id

-----------------------------------------------------------------------------
(* Properties of the pages *)

\* the methods of the event service the pages call
EventService ==
    {"create_sneeze", "get_user_sneezes", "get_sneezes_by_month", "get_sneeze_stats"}

\* the page functions of the protected pages
ProtectedPages == {"dashboard_page", "add_sneeze_page", "sneezes_page"}

\* C30: the session gate. The user_id of a browser's session is set only by
\* a login or a registration that succeeded, to the id of the user returned,
\* and logout clears the session; a page calls the event service only while
\* the session of its browser holds a user_id, and passes that user_id; a
\* protected page loaded with no user_id in the session sends the tab to
\* /login and calls no service.
C30_SessionGate ==
    /\ [](/\ result.op \in EventService
              => /\ require_auth(ui.browser) # NoUserId
                 /\ result.args.user_id = require_auth(ui.browser)
          /\ ui.handler = "logout" => ui.browser \notin DOMAIN session
          /\ (ui.handler \in ProtectedPages /\ require_auth(ui.browser) = NoUserId)
              => /\ ui.navigate = "/login"
                 /\ result = NoCall)
    /\ [][\A b \in Browsers :
            require_auth(b)' # require_auth(b)
               => \/ ui'.handler = "logout" /\ ui'.browser = b /\ b \notin DOMAIN session'
                  \/ /\ ui'.handler \in {"handle_login", "handle_register"}
                     /\ ui'.browser = b
                     /\ result'.op \in {"authenticate_user", "register_user"}
                     /\ result'.ok
                     /\ require_auth(b)' = result'.ret[1].id]_vars

====
